---------------------------- MODULE Spec2Model ----------------------------
(***************************************************************************)
(* LED show controller ("showrunner") and its microcontroller firmware.    *)
(*                                                                         *)
(* Host side (Node.js, one event loop: every handler runs to completion):  *)
(*   AnimationEngine   src/showrunner/README.md            (lines 90-280)  *)
(*   SerialConnection  src/unnamed/part_003                                *)
(*   WebSocketServer   src/showrunner/lib/coordinate-loader.js (160-423)   *)
(*   main              src/showrunner/lib/animation-switcher.js (157-239)  *)
(* Device side (C firmware, one cooperative loop plus DMA hardware):       *)
(*   src/animation_designer/default_script.js (lines 483-1852)             *)
(***************************************************************************)
EXTENDS Integers, Sequences, FiniteSets, Bags, TLC

\* ------------------------------------------------------------------------
\* Bounds of the model
\* ------------------------------------------------------------------------

\* connections the environment opens in one behaviour
MaxConns == 2

\* the host clock (Date.now(), in ms) stops advancing here
MaxTime == 2000

\* reads of the serial port by the device that deliver bytes
MaxChunks == 2

\* test-pattern frames the device shows
MaxFrames == 1

\* bright frames read by the device
MaxBrightFrames == 2

\* rewrites of the animation control file
MaxEdits == 2

\* update_sensors() calls that take readings, per behaviour
MaxSensorReads == 2

\* status reports per behaviour
MaxReports == 2

\* lines of the coordinate file
MaxLines == 2

\* serial lines received
MaxMessages == 3

\* commands the device reads one at a time
MaxCommands == 4

\* ------------------------------------------------------------------------
\* Protocol constants
\* ------------------------------------------------------------------------

CMD_UPDATE_AND_FLUSH == 255

CMD_UPDATE_ONLY == 254

CMD_FLUSH == 253

CMD_RESET == 252

CMD_START_PATTERN == 251

CMD_STOP_PATTERN == 250

CMD_CLEAR_ALL == 249

\* null of activeClient / idleTimer (connection and timer ids start at 1)
NULL == 0

\* null of activeClientConnectTime
NOTIME == 0 - 1

\* null of switcher.currentAnimation
NoAnimation == "null"

\* ------------------------------------------------------------------------
\* Host state
\* ------------------------------------------------------------------------

VARIABLES
    config,                   \* loadConfig(): wsEvictionAge, wsIdleTimeout (s), numChannels, ledsPerChannel
    now,                      \* the clock in ms: Date.now(), and performance.now() counted from the same instant
    mainPc,                   \* main(): "loading" (about to load the coordinates), "connecting" (about to
                              \* open the serial port), "failed" (process.exit(1)),
                              \* "serving" (wsServer started, engine.start() not yet called), "started";
                              \* shutdown(): "stopping" (awaiting wss.close), "clearing" (Clear All sent), "exited"
    animationFunc,            \* engine.animationFunc
    animationParams,          \* engine.animationParams
    running,                  \* engine.running
    paused,                   \* engine.paused
    wasRunning,               \* engine.wasRunning
    loops,                    \* number of start() invocations whose while-loop awaits its frame timer
    activeClient,             \* wsServer.activeClient (connection id or NULL)
    activeClientConnectTime,  \* wsServer.activeClientConnectTime (ms or NOTIME)
    idleTimer,                \* wsServer.idleTimer (timer handle or NULL)
    timers,                   \* pending setTimeout()s of resetIdleTimer: set of [id, at]
    ws,                       \* per connection: [st, attached, sent]
    wrote,                    \* serialConn.write() calls of the last handler run: seq of [src, data]
    event,                    \* the event-loop job that ran last: [type, conn, isBinary]
    f9Count,                  \* Clear All commands the engine wrote so far
    script,                   \* connection times (ms) still to come in a scripted scenario
    currentAnimation,         \* switcher.currentAnimation (file name or NoAnimation)
    controlFile,              \* contents of the animation control file: sequence of tokens
    tasks,                    \* handleFileChange() calls in progress: seq of [pc, name]
    edits,                    \* rewrites of the control file so far
    coordFile,                \* the coordinate file as load() finds it: [exists, lines] (left out,
                              \* as a missing file, where the behaviours start after load())
    rawCoordinates,           \* coordLoader.rawCoordinates: sequence of [id, x, y, z]
    coordinates,              \* coordLoader.coordinates: LED id -> normalized [x, y, z]
    calls,                    \* LED ids animationFunc was called with in the last handler run
    statusFile,               \* the status file as a reader finds it: [exists, content]
    statusWrites,             \* writeFile() calls of writeStatusFile() in progress: seq of [pc, content]
    lastStatus,               \* statusHandler.lastStatus (<<>> for null)
    received,                 \* serial lines received so far
    startTime,                \* engine.startTime: the clock reading (ms) start() stored last
    lastT                     \* renderFrame(): the t (seconds, a fraction) of the last frame rendered

hostVars == <<config, now, mainPc, animationFunc, running, paused, wasRunning, loops,
              activeClient, activeClientConnectTime, idleTimer, timers, ws, wrote,
              event, f9Count, script, animationParams, currentAnimation, controlFile,
              tasks, edits, coordFile, rawCoordinates, coordinates, calls,
              statusFile, statusWrites, lastStatus, received, startTime, lastT>>

\* ------------------------------------------------------------------------
\* Device state (firmware globals and the DMA hardware)
\* ------------------------------------------------------------------------

VARIABLES
    channels,              \* channels[0..7]: ws2812_channel_t
    parser,                \* parser_context_t
    stats,                 \* statistics_t
    system_mode,           \* "MODE_NORMAL" or "MODE_TEST_PATTERN"
    current_test_pattern,  \* 0 .. NUM_TEST_PATTERNS-1
    frame_counter,         \* update_test_pattern(): static frame_counter
    dma,                   \* DMA hardware per channel: [busy, src] (src: the buffer being read)
    rx,                    \* the bytes the last parse_uart_data() processed, and the parser state before
    hazard,                \* accesses that raced with a DMA so far: set of "swap", "store", ...
    nrx,                   \* number of non-empty parse_uart_data() calls so far
    since_serial,          \* ms from last_serial_data_time to now, no longer counted once
                           \* past TEST_PATTERN_TIMEOUT_MS
    sensors,               \* sensor_data_t: temperatures in 0.1 C, voltages in 0.1 V, current in 0.1 A
    fault_present,         \* fault_present
    fault_history,         \* fault_history
    fb_channel_idx,        \* update_sensors(): static fb_channel_idx
    sensor_cycle_counter,  \* update_sensors(): static sensor_cycle_counter
    reads,                 \* update_sensors() calls past the rate limit so far
    reports,               \* STATS lines printed so far
    ternary                \* pattern 4 as seen on one LED: [led_id, digits shown so far]

devVars == <<channels, parser, stats, system_mode, current_test_pattern, frame_counter,
             dma, rx, hazard, nrx, since_serial, sensors, fault_present, fault_history,
             fb_channel_idx, sensor_cycle_counter, reads, reports, ternary>>

\* the connections of this behaviour
Conns == DOMAIN ws

Min(a, b) == IF a <= b THEN a ELSE b

\* Math.ceil(a / b) for b > 0
CeilDiv(a, b) == IF a % b = 0 THEN a \div b ELSE (a \div b) + 1

\* The host state as one record, so that a handler is a function on it.
Cur ==
    [config |-> config, now |-> now, mainPc |-> mainPc, animationFunc |-> animationFunc,
     running |-> running, paused |-> paused, wasRunning |-> wasRunning, loops |-> loops,
     activeClient |-> activeClient, activeClientConnectTime |-> activeClientConnectTime,
     idleTimer |-> idleTimer, timers |-> timers, ws |-> ws, wrote |-> <<>>,
     event |-> event, f9Count |-> f9Count, script |-> script,
     animationParams |-> animationParams, currentAnimation |-> currentAnimation,
     controlFile |-> controlFile, tasks |-> tasks, edits |-> edits,
     coordFile |-> coordFile, rawCoordinates |-> rawCoordinates,
     coordinates |-> coordinates, calls |-> {},
     statusFile |-> statusFile, statusWrites |-> statusWrites,
     lastStatus |-> lastStatus, received |-> received,
     startTime |-> startTime, lastT |-> lastT]

\* the host state after a job
HostNext(s) ==
    /\ config' = s.config
    /\ now' = s.now
    /\ mainPc' = s.mainPc
    /\ animationFunc' = s.animationFunc
    /\ running' = s.running
    /\ paused' = s.paused
    /\ wasRunning' = s.wasRunning
    /\ loops' = s.loops
    /\ activeClient' = s.activeClient
    /\ activeClientConnectTime' = s.activeClientConnectTime
    /\ idleTimer' = s.idleTimer
    /\ timers' = s.timers
    /\ ws' = s.ws
    /\ wrote' = s.wrote
    /\ event' = s.event
    /\ f9Count' = s.f9Count
    /\ script' = s.script
    /\ animationParams' = s.animationParams
    /\ currentAnimation' = s.currentAnimation
    /\ controlFile' = s.controlFile
    /\ tasks' = s.tasks
    /\ edits' = s.edits
    /\ coordFile' = s.coordFile
    /\ rawCoordinates' = s.rawCoordinates
    /\ coordinates' = s.coordinates
    /\ calls' = s.calls
    /\ statusFile' = s.statusFile
    /\ statusWrites' = s.statusWrites
    /\ lastStatus' = s.lastStatus
    /\ received' = s.received
    /\ startTime' = s.startTime
    /\ lastT' = s.lastT

\* a job of the host: the device does not move
Commit(s) == HostNext(s) /\ UNCHANGED devVars

\* ------------------------------------------------------------------------
\* SerialConnection (src/unnamed/part_003)
\* ------------------------------------------------------------------------

\* write(data): one port.write() call; src is the connection whose bytes are
\* forwarded, or NULL when the engine writes
write(s, src, data) ==
    [s EXCEPT !.wrote = Append(@, [src |-> src, data |-> data])]

\* mutant: sendFrameFlat writes the count high byte first
sendFrameFlat_BigEndian(s, channel, flatBuffer, offset, ledCount) ==
    LET header == <<CMD_UPDATE_ONLY, channel, (ledCount \div 256) % 256, ledCount % 256>>
        body == [i \in 1 .. ledCount * 3 |-> flatBuffer[offset + i - 1]]
    IN write(s, NULL, header \o body)

\* sendFrameFlat(channel, flatBuffer, offset, ledCount)
sendFrameFlat(s, channel, flatBuffer, offset, ledCount) ==
    LET header == <<CMD_UPDATE_ONLY, channel, ledCount % 256, (ledCount \div 256) % 256>>
        body == [i \in 1 .. ledCount * 3 |-> flatBuffer[offset + i - 1]]
    IN write(s, NULL, header \o body)

\* flush(channelMask)
\* mutant: the mask names the configured channels only
flush_Configured(s, channelMask) ==
    write(s, NULL, <<CMD_FLUSH, (2 ^ s.config.numChannels) - 1>>)

flush(s, channelMask) == write(s, NULL, <<CMD_FLUSH, channelMask>>)

\* clearAll()
clearAll(s) ==
    [write(s, NULL, <<CMD_CLEAR_ALL>>) EXCEPT !.f9Count = @ + 1]

\* ------------------------------------------------------------------------
\* AnimationEngine (src/showrunner/README.md)
\* ------------------------------------------------------------------------

\* the scripts of the animation directory that load: A.js returns red at full
\* level, B.js green at half level. Any other name fails to load (bad.js does
\* not define getSphereColor).
Scripts ==
    [n \in {"A.js", "B.js"} |->
        IF n = "A.js" THEN [func |-> "red", params |-> [level |-> 255]]
                      ELSE [func |-> "green", params |-> [level |-> 128]]]

\* loadAnimation(scriptPath): the animation, or the error thrown
loadAnimation(scriptPath) ==
    IF scriptPath \in DOMAIN Scripts
    THEN [ok |-> TRUE, func |-> Scripts[scriptPath].func, params |-> Scripts[scriptPath].params]
    ELSE [ok |-> FALSE, func |-> "none", params |-> [level |-> 0]]

\* the colour animationFunc(x, y, z, t, params, ledId) returns, already
\* multiplied by 255
AnimColor(f, params) ==
    IF f = "red" THEN <<params.level, 0, 0>> ELSE <<0, params.level, 0>>

\* mutant: setAnimation() of a load in progress lands after the first LED
FrameBuffer_Torn(s) ==
    LET loading == {k \in DOMAIN s.tasks :
                       s.tasks[k].pc = "load" /\ loadAnimation(s.tasks[k].name).ok}
        pending == IF loading = {}
                   THEN [func |-> s.animationFunc, params |-> s.animationParams]
                   ELSE loadAnimation(s.tasks[CHOOSE k \in loading : TRUE].name)
    IN [i \in 0 .. (s.config.numChannels * s.config.ledsPerChannel * 3 - 1) |->
           IF i < 3 THEN AnimColor(s.animationFunc, s.animationParams)[(i % 3) + 1]
           ELSE AnimColor(pending.func, pending.params)[(i % 3) + 1]]

\* A JavaScript number is the fraction num / den: den = 0 stands for Infinity
\* (num > 0), -Infinity (num < 0) and NaN (num = 0).
\*
\* What animationFunc(x, y, z, t, params, ledId) does: throws, or returns a
\* value that is an array or not, of the components listed (each already
\* multiplied by 255). "red" and "green" return one colour for every LED;
\* "faulty" misbehaves on the LEDs 0 .. 9 and returns fractions and values out
\* of range on the next ones.
animationFunc_call(f, params, ledId) ==
    LET Num(n) == [num |-> n, den |-> 1]
        array(c) == [thrown |-> FALSE, isArray |-> TRUE, result |-> c]
        NaN == [num |-> 0, den |-> 0]
        Infinity == [num |-> 1, den |-> 0]
        MinusInfinity == [num |-> 0 - 1, den |-> 0]
    IN IF f # "faulty"
       THEN array([k \in 1 .. 3 |-> Num(AnimColor(f, params)[k])])
       ELSE CASE ledId = 0 -> [thrown |-> TRUE, isArray |-> FALSE, result |-> <<>>]
              [] ledId = 1 -> [thrown |-> FALSE, isArray |-> FALSE, result |-> <<Num(255)>>]
              [] ledId = 2 -> [thrown |-> FALSE, isArray |-> FALSE,
                               result |-> <<Num(255), Num(255), Num(255)>>]
              [] ledId = 3 -> array(<<>>)
              [] ledId = 4 -> array(<<Num(255), Num(255)>>)
              [] ledId = 5 -> array(<<Num(255), Num(0), Num(0), Num(255)>>)
              [] ledId = 6 -> array(<<NaN, Num(255), Num(255)>>)
              [] ledId = 7 -> array(<<Num(255), Infinity, Num(0)>>)
              [] ledId = 8 -> array(<<Num(0), Num(255), MinusInfinity>>)
              [] ledId = 9 -> array(<<NaN, NaN, NaN>>)
              [] ledId = 10 -> array(<<[num |-> 255, den |-> 2], [num |-> 1, den |-> 2],
                                       [num |-> 3, den |-> 2]>>)
              [] ledId = 11 -> array(<<Num(300), Num(0 - 5), [num |-> 5, den |-> 2]>>)
              [] OTHER -> array(<<Num(0), Num(params.level), Num(0)>>)

\* storing x into a Uint8ClampedArray: NaN gives 0, the value is clamped to
\* 0 .. 255 and rounded to the nearest integer, a half to the even one
ToUint8Clamp(x) ==
    IF x.den = 0 THEN (IF x.num > 0 THEN 255 ELSE 0)
    ELSE IF x.num <= 0 THEN 0
    ELSE IF x.num >= 255 * x.den THEN 255
    ELSE LET floor == x.num \div x.den
             twice == 2 * (x.num % x.den)
         IN IF twice < x.den THEN floor
            ELSE IF twice > x.den THEN floor + 1
            ELSE IF floor % 2 = 0 THEN floor ELSE floor + 1

\* mutant: the animation is called for LEDs without coordinates too
RenderLed_NoCoordinateCheck(s, ledId) ==
    LET ret == animationFunc_call(s.animationFunc, s.animationParams, ledId)
    IN [called |-> TRUE,
        rgb |-> IF ret.thrown \/ ~ret.isArray \/ Len(ret.result) < 3
                THEN <<0, 0, 0>>
                ELSE [k \in 1 .. 3 |-> ToUint8Clamp(ret.result[k])]]

\* renderFrame(), lines 223-253: one turn of the per-LED loop. The LED stays
\* black when it has no coordinates (animationFunc is not called) and when the
\* call throws or returns no array of at least 3 elements.
RenderLed(s, ledId) ==
    IF ledId \notin DOMAIN s.coordinates THEN [called |-> FALSE, rgb |-> <<0, 0, 0>>]
    ELSE LET ret == animationFunc_call(s.animationFunc, s.animationParams, ledId)
         IN [called |-> TRUE,
             rgb |-> IF ret.thrown \/ ~ret.isArray \/ Len(ret.result) < 3
                     THEN <<0, 0, 0>>
                     ELSE [k \in 1 .. 3 |-> ToUint8Clamp(ret.result[k])]]

\* renderFrame(), lines 219-254: the frame buffer after the per-LED loop
FrameBuffer(s) ==
    [i \in 0 .. (s.config.numChannels * s.config.ledsPerChannel * 3 - 1) |->
        RenderLed(s, i \div 3).rgb[(i % 3) + 1]]

RECURSIVE SendChannels(_, _, _)
\* renderFrame(), lines 257-261: for (ch = from; ch < numChannels; ch++) sendFrameFlat(...)
SendChannels(s, fb, ch) ==
    IF ch >= s.config.numChannels THEN s
    ELSE SendChannels(
             sendFrameFlat(s, ch, fb, ch * s.config.ledsPerChannel * 3, s.config.ledsPerChannel),
             fb, ch + 1)

\* mutant: the flush is issued before the channel updates
renderFrame_FlushFirst(s) ==
    [SendChannels(flush(s, 255), FrameBuffer(s), 0) EXCEPT
        !.lastT = [num |-> s.now - s.startTime, den |-> 1000]]

\* renderFrame(): no await inside, so one tick is written without interruption
renderFrame(s) ==
    [flush(SendChannels(s, FrameBuffer(s), 0), 255) EXCEPT
        !.lastT = [num |-> s.now - s.startTime, den |-> 1000],
        !.calls = {id \in 0 .. (s.config.numChannels * s.config.ledsPerChannel - 1) :
                      RenderLed(s, id).called}]

\* setAnimation(animationFunc, params)
setAnimation(s, func, params) ==
    [s EXCEPT !.animationFunc = func, !.animationParams = params]

\* start(): returns at once when running; otherwise sets running, renders the
\* first frame synchronously and leaves one loop awaiting its frame timer
start(s) ==
    IF s.running THEN s
    ELSE renderFrame([s EXCEPT !.running = TRUE, !.startTime = s.now, !.loops = @ + 1])

\* mutant: pause() forgets the Clear All
pause_NoClear(s) ==
    IF s.paused THEN s
    ELSE [s EXCEPT !.paused = TRUE, !.wasRunning = s.running, !.running = FALSE]

\* mutant: pause() without its early return
pause_NoGuard(s) ==
    clearAll([s EXCEPT !.paused = TRUE, !.wasRunning = s.running, !.running = FALSE])

\* stop()
stop(s) == [s EXCEPT !.running = FALSE]

\* pause()
pause(s) ==
    IF s.paused THEN s
    ELSE clearAll([s EXCEPT !.paused = TRUE, !.wasRunning = s.running, !.running = FALSE])

\* resume()
resume(s) ==
    IF ~s.paused THEN s
    ELSE LET u == [s EXCEPT !.paused = FALSE]
         IN IF u.wasRunning THEN start(u) ELSE u

\* ------------------------------------------------------------------------
\* AnimationLoader and AnimationSwitcher
\* (src/showrunner/lib/animation-loader.js, animation-switcher.js)
\* ------------------------------------------------------------------------

Whitespace == {" ", "\n"}

RECURSIVE TrimStart(_)
TrimStart(c) == IF c # <<>> /\ Head(c) \in Whitespace THEN TrimStart(Tail(c)) ELSE c

RECURSIVE TrimEnd(_)
TrimEnd(c) ==
    IF c # <<>> /\ c[Len(c)] \in Whitespace THEN TrimEnd(SubSeq(c, 1, Len(c) - 1)) ELSE c

\* content.trim(): the file name left when the white space around it is
\* removed, "" when nothing is left
Trim(content) ==
    LET t == TrimEnd(TrimStart(content))
    IN IF t = <<>> THEN "" ELSE t[1]

\* tasks without the k-th
Drop(q, k) == SubSeq(q, 1, k - 1) \o SubSeq(q, k + 1, Len(q))

\* handleFileChange(), from the moment readFile(controlFile) resolves, for the
\* k-th call in progress
handleFileChange(s, k) ==
    LET animationName == Trim(s.controlFile)
    IN IF animationName = "" THEN [s EXCEPT !.tasks = Drop(@, k)]
       ELSE IF animationName = s.currentAnimation THEN [s EXCEPT !.tasks = Drop(@, k)]
       ELSE [s EXCEPT !.tasks[k] = [pc |-> "load", name |-> animationName]]

\* mutant: switchAnimation() records the name before the load is known to succeed
switchAnimation_NameFirst(s, k) ==
    LET animationName == s.tasks[k].name
        animation == loadAnimation(animationName)
        u == [s EXCEPT !.tasks = Drop(@, k), !.currentAnimation = animationName]
    IN IF animation.ok THEN setAnimation(u, animation.func, animation.params) ELSE u

\* switchAnimation(animationName), from the moment loadAnimation() settles,
\* for the k-th call in progress
switchAnimation(s, k) ==
    LET animationName == s.tasks[k].name
        animation == loadAnimation(animationName)
        u == [s EXCEPT !.tasks = Drop(@, k)]
    IN IF animation.ok
       THEN [setAnimation(u, animation.func, animation.params)
                EXCEPT !.currentAnimation = animationName]
       ELSE u

\* ------------------------------------------------------------------------
\* loadConfig (src/showrunner/lib/config.js)
\* ------------------------------------------------------------------------

\* A string is the sequence of its characters. A number that may be NaN is
\* [nan, n]: n is the value when nan is FALSE.

\* the value of a digit character, -1 for any other character
DigitValue(c) ==
    LET digits == <<"0", "1", "2", "3", "4", "5", "6", "7", "8", "9">>
    IN IF \E i \in 1 .. 10 : digits[i] = c
       THEN (CHOOSE i \in 1 .. 10 : digits[i] = c) - 1
       ELSE 0 - 1

RECURSIVE ParseDigits(_, _)
\* the value of the longest prefix of digits of str, after the digits worth acc
ParseDigits(str, acc) ==
    IF str = <<>> \/ DigitValue(Head(str)) < 0 THEN acc
    ELSE ParseDigits(Tail(str), acc * 10 + DigitValue(Head(str)))

\* parseInt(str, 10): white space is skipped, then an optional sign, then the
\* longest prefix of digits is read; NaN without a digit
parseInt(str) ==
    LET s == TrimStart(str)
        signed == s # <<>> /\ Head(s) \in {"-", "+"}
        body == IF signed THEN Tail(s) ELSE s
    IN IF body = <<>> \/ DigitValue(Head(body)) < 0 THEN [nan |-> TRUE, n |-> 0]
       ELSE IF signed /\ Head(s) = "-" THEN [nan |-> FALSE, n |-> 0 - ParseDigits(body, 0)]
       ELSE [nan |-> FALSE, n |-> ParseDigits(body, 0)]

\* loadConfig() for the environment env (the variables not listed are unset and
\* LED_COORDS_FILE is set): the configuration, or the error thrown. An unset or
\* empty variable gives the default (process.env.NAME || default).
loadConfig(env) ==
    LET OrDefault(value, default) == IF value = <<>> THEN default ELSE value
        wsEvictionAge == parseInt(OrDefault(env.WS_EVICTION_AGE, <<"3", "0", "0">>))
        wsIdleTimeout == parseInt(OrDefault(env.WS_IDLE_TIMEOUT, <<"3", "0">>))
        numChannels == parseInt(OrDefault(env.NUM_CHANNELS, <<"6">>))
        ledsPerChannel == parseInt(OrDefault(env.LEDS_PER_CHANNEL, <<"2", "0", "0">>))
        thrown == \/ ledsPerChannel.nan \/ ledsPerChannel.n <= 0 \/ ledsPerChannel.n > 200
                  \/ numChannels.nan \/ numChannels.n <= 0 \/ numChannels.n > 8
                  \/ wsEvictionAge.nan \/ wsEvictionAge.n < 0
                  \/ wsIdleTimeout.nan \/ wsIdleTimeout.n <= 0
    IN [ok |-> ~thrown,
        config |-> [wsEvictionAge |-> wsEvictionAge.n, wsIdleTimeout |-> wsIdleTimeout.n,
                    numChannels |-> numChannels.n, ledsPerChannel |-> ledsPerChannel.n]]

\* ------------------------------------------------------------------------
\* CoordinateLoader (src/showrunner/lib/coordinate-loader.js)
\* ------------------------------------------------------------------------

RECURSIVE SplitWhitespace(_)
\* trimmed.split(/\s+/) for a string without white space at either end
SplitWhitespace(str) ==
    IF str = <<>> THEN <<>>
    ELSE LET n == CHOOSE k \in 1 .. Len(str) :
                      /\ \A i \in 1 .. k : str[i] \notin Whitespace
                      /\ (k = Len(str) \/ str[k + 1] \in Whitespace)
         IN <<SubSeq(str, 1, n)>> \o SplitWhitespace(TrimStart(SubSeq(str, n + 1, Len(str))))

\* parseFloat(str) for a string without exponent: white space is skipped, then
\* an optional sign, then "Infinity" or the longest prefix of digits with at
\* most one decimal point is read; NaN when there is no digit
parseFloat(str) ==
    LET Digits(q) == CHOOSE k \in 0 .. Len(q) :
                         /\ \A i \in 1 .. k : DigitValue(q[i]) >= 0
                         /\ (k = Len(q) \/ DigitValue(q[k + 1]) < 0)
        Fraction(rest) == IF rest # <<>> /\ Head(rest) = "." THEN Tail(rest) ELSE <<>>
        Value(sign, whole, fraction, places) ==
            IF Len(whole) >= 8 /\ SubSeq(whole, 1, 8) = <<"I", "n", "f", "i", "n", "i", "t", "y">>
            THEN [num |-> sign, den |-> 0]
            ELSE IF (whole = <<>> \/ DigitValue(Head(whole)) < 0) /\ places = 0
                 THEN [num |-> 0, den |-> 0]
                 ELSE [num |-> sign * (ParseDigits(whole, 0) * (10 ^ places)
                                       + ParseDigits(fraction, 0)),
                       den |-> 10 ^ places]
        Unsigned(sign, body, fraction) == Value(sign, body, fraction, Digits(fraction))
        Signed(s) ==
            IF s # <<>> /\ Head(s) \in {"-", "+"}
            THEN Unsigned(IF Head(s) = "-" THEN 0 - 1 ELSE 1, Tail(s),
                          Fraction(SubSeq(s, Digits(Tail(s)) + 2, Len(s))))
            ELSE Unsigned(1, s, Fraction(SubSeq(s, Digits(s) + 1, Len(s))))
    IN Signed(TrimStart(str))

\* load(), lines 24-63: the record one line of the file gives, if any
ParseLine(line) ==
    LET StartsWith(q, p) == Len(q) >= Len(p) /\ SubSeq(q, 1, Len(p)) = p
        LastUnderscore(ledIdPart) ==
            CHOOSE i \in 1 .. Len(ledIdPart) :
                /\ ledIdPart[i] = "_"
                /\ \A j \in i + 1 .. Len(ledIdPart) : ledIdPart[j] # "_"
        LedId(ledIdPart) ==
            parseInt(SubSeq(ledIdPart, LastUnderscore(ledIdPart) + 1, Len(ledIdPart)))
        isNaN(v) == v.num = 0 /\ v.den = 0
        Record(ledId, x, y, z) ==
            IF ledId.nan \/ isNaN(x) \/ isNaN(y) \/ isNaN(z) THEN [valid |-> FALSE]
            ELSE [valid |-> TRUE, record |-> [id |-> ledId.n, x |-> x, y |-> y, z |-> z]]
        Parts(parts) ==
            IF Len(parts) < 4 THEN [valid |-> FALSE]
            ELSE Record(LedId(parts[1]), parseFloat(parts[2]), parseFloat(parts[3]),
                        parseFloat(parts[4]))
        Trimmed(trimmed) ==
            IF trimmed = <<>> \/ StartsWith(trimmed, <<"#">>) THEN [valid |-> FALSE]
            ELSE IF ~StartsWith(trimmed, <<"L", "E", "D", "_">>) THEN [valid |-> FALSE]
            ELSE Parts(SplitWhitespace(trimmed))
    IN Trimmed(TrimEnd(TrimStart(line)))

RECURSIVE ParseLines(_)
\* load(), lines 22-64: rawCoords
ParseLines(lines) ==
    IF lines = <<>> THEN <<>>
    ELSE LET parsed == ParseLine(Head(lines))
         IN (IF parsed.valid THEN <<parsed.record>> ELSE <<>>) \o ParseLines(Tail(lines))

\* mutant: a line whose LED id is no number fails the load
load_Strict(file) ==
    LET rawCoords == IF file.exists THEN ParseLines(file.lines) ELSE <<>>
        BadId(line) ==
            LET parts == SplitWhitespace(TrimEnd(TrimStart(line)))
            IN /\ Len(parts) >= 4
               /\ Len(parts[1]) >= 4
               /\ SubSeq(parts[1], 1, 4) = <<"L", "E", "D", "_">>
               /\ DigitValue(parts[1][Len(parts[1])]) < 0
    IN IF rawCoords = <<>> \/ \E i \in DOMAIN file.lines : BadId(file.lines[i])
       THEN [ok |-> FALSE, rawCoordinates |-> <<>>, coordinates |-> <<>>]
       ELSE [ok |-> TRUE, rawCoordinates |-> rawCoords,
             coordinates |-> [id \in {rawCoords[i].id : i \in DOMAIN rawCoords} |->
                                 <<[num |-> 1, den |-> 2], [num |-> 1, den |-> 2],
                                   [num |-> 1, den |-> 2]>>]]

\* normalizeCoordinates() for at least one record: this.coordinates. A later
\* record of an id replaces an earlier one.
normalizeCoordinates(raw) ==
    LET NaN == [num |-> 0, den |-> 0]
        \* a < b, for numbers that are not NaN
        Less(a, b) == IF a.den = 0 /\ b.den = 0 THEN a.num < b.num
                      ELSE a.num * b.den < b.num * a.den
        \* a - b
        Minus(a, b) == IF a.den = 0 /\ b.den = 0
                       THEN (IF a.num = b.num \/ a = NaN \/ b = NaN THEN NaN ELSE a)
                       ELSE [num |-> a.num * b.den - b.num * a.den, den |-> a.den * b.den]
        \* a / b for b > 0
        Over(a, b) == IF a.den = 0 /\ b.den = 0 THEN NaN
                      ELSE [num |-> a.num * b.den, den |-> a.den * b.num]
        Axis(axis) == [i \in DOMAIN raw |-> raw[i][axis]]
        Minimum(v) == v[CHOOSE i \in DOMAIN v : \A j \in DOMAIN v : ~Less(v[j], v[i])]
        Maximum(v) == v[CHOOSE i \in DOMAIN v : \A j \in DOMAIN v : ~Less(v[i], v[j])]
        Scaled(value, min, range) ==
            IF range.num > 0 THEN Over(Minus(value, min), range) ELSE [num |-> 1, den |-> 2]
        Within(value, min, max) == Scaled(value, min, Minus(max, min))
        Normalized(v, i) == Within(v[i], Minimum(v), Maximum(v))
    IN [id \in {raw[i].id : i \in DOMAIN raw} |->
           LET last == CHOOSE i \in DOMAIN raw :
                           /\ raw[i].id = id
                           /\ \A j \in DOMAIN raw : raw[j].id = id => j <= i
           IN <<Normalized(Axis("x"), last), Normalized(Axis("y"), last),
                Normalized(Axis("z"), last)>>]

\* load() of a file [exists, lines]: readFile() rejects when the file is
\* missing, and load() throws when no line gives a record
load(file) ==
    LET rawCoords == IF file.exists THEN ParseLines(file.lines) ELSE <<>>
    IN IF rawCoords = <<>>
       THEN [ok |-> FALSE, rawCoordinates |-> <<>>, coordinates |-> <<>>]
       ELSE [ok |-> TRUE, rawCoordinates |-> rawCoords,
             coordinates |-> normalizeCoordinates(rawCoords)]

\* ------------------------------------------------------------------------
\* StatusHandler (src/showrunner/lib/status-handler.js)
\* ------------------------------------------------------------------------

\* A status object is the sequence of its properties in insertion order
\* (<<>> for null). A property is [key, text, number]: number is the value of
\* a numeric property and NaN for a string property, whose value is text.
\* The keys here are no array indices, which a JS object would list first.

RECURSIVE StatusProperties(_, _)
\* parseStatusMessage(), lines 53-63: status after the loop over parts
StatusProperties(parts, status) ==
    LET NaN == [num |-> 0, den |-> 0]
        Index(part) == IF \E i \in 1 .. Len(part) : part[i] = "="
                       THEN CHOOSE i \in 1 .. Len(part) :
                                part[i] = "=" /\ \A j \in 1 .. i - 1 : part[j] # "="
                       ELSE 0
        Property(key, value, numValue) ==
            IF numValue = NaN THEN [key |-> key, text |-> value, number |-> NaN]
            ELSE [key |-> key, text |-> <<>>, number |-> numValue]
        Put(p) ==
            IF \E i \in 1 .. Len(status) : status[i].key = p.key
            THEN [i \in 1 .. Len(status) |-> IF status[i].key = p.key THEN p ELSE status[i]]
            ELSE Append(status, p)
        Assigned(part, eqIndex) ==
            IF eqIndex = 0 THEN status
            ELSE Put(Property(SubSeq(part, 1, eqIndex - 1),
                              SubSeq(part, eqIndex + 1, Len(part)),
                              parseFloat(SubSeq(part, eqIndex + 1, Len(part)))))
    IN IF parts = <<>> THEN status
       ELSE StatusProperties(Tail(parts), Assigned(Head(parts), Index(Head(parts))))

\* parseStatusMessage(line), called at time t: /STATS\s+(.+)/ matches where
\* STATS is followed by white space and one more character at least
parseStatusMessage(line, t) ==
    LET Matches(i) == /\ SubSeq(line, i, i + 4) = <<"S", "T", "A", "T", "S">>
                      /\ line[i + 5] \in Whitespace
        First == CHOOSE i \in 1 .. Len(line) - 6 :
                     Matches(i) /\ \A j \in 1 .. i - 1 : ~Matches(j)
    IN IF \E i \in 1 .. Len(line) - 6 : Matches(i)
       THEN StatusProperties(
                SplitWhitespace(TrimStart(SubSeq(line, First + 5, Len(line)))),
                <<[key |-> <<"t", "i", "m", "e", "s", "t", "a", "m", "p">>, text |-> <<>>,
                   number |-> [num |-> t, den |-> 1]],
                  [key |-> <<"r", "a", "w">>, text |-> line, number |-> [num |-> 0, den |-> 0]]>>)
       ELSE <<>>

\* new Date(t).toISOString() for 0 <= t < 60000
toISOString(t) ==
    LET Digit(d) == <<"0", "1", "2", "3", "4", "5", "6", "7", "8", "9">>[d + 1]
    IN <<"1", "9", "7", "0", "-", "0", "1", "-", "0", "1", "T", "0", "0", ":", "0", "0", ":",
         Digit(t \div 10000), Digit((t \div 1000) % 10), ".",
         Digit((t \div 100) % 10), Digit((t \div 10) % 10), Digit(t % 10), "Z">>

\* JSON.stringify(status, null, 2): the text is the sequence of its pieces, an
\* opening brace, one piece per property, a closing brace
stringify(status) ==
    <<[key |-> <<"{">>, text |-> <<>>, number |-> [num |-> 0, den |-> 0]]>>
    \o status
    \o <<[key |-> <<"}">>, text |-> <<>>, number |-> [num |-> 0, den |-> 0]]>>

\* writeStatusFile(status), up to its await of writeFile(); status.timestamp
\* is the number parseStatusMessage() stored
writeStatusFile(s, status) ==
    LET iso == [key |-> <<"t", "i", "m", "e", "s", "t", "a", "m", "p", "_", "i", "s", "o">>,
                text |-> toISOString(status[1].number.num),
                number |-> [num |-> 0, den |-> 0]]
        dated == IF \E i \in 1 .. Len(status) : status[i].key = iso.key
                 THEN [i \in 1 .. Len(status) |->
                          IF status[i].key = iso.key THEN iso ELSE status[i]]
                 ELSE Append(status, iso)
    IN [s EXCEPT !.lastStatus = dated,
                 !.statusWrites = Append(@, [pc |-> "open", content |-> stringify(dated)])]

\* handleMessage(line), up to its await
handleMessage(s, line) ==
    IF line = <<>> THEN s
    ELSE IF Len(line) >= 5 /\ SubSeq(line, 1, 5) = <<"S", "T", "A", "T", "S">>
         THEN IF parseStatusMessage(line, s.now) # <<>>
              THEN writeStatusFile(s, parseStatusMessage(line, s.now))
              ELSE s
         ELSE s

\* writeFile(path, content), first step: the file is opened with flag 'w',
\* which creates it or truncates it
writeFile_open(s, k) ==
    [s EXCEPT !.statusFile = [exists |-> TRUE, content |-> <<>>],
              !.statusWrites[k].pc = "write"]

\* writeFile(path, content), second step: the content is written from the
\* start of the file, over what is there; then the file is closed and
\* writeStatusFile() returns
writeFile_write(s, k) ==
    LET content == s.statusWrites[k].content
        old == s.statusFile.content
    IN [s EXCEPT !.statusFile.content = content \o SubSeq(old, Len(content) + 1, Len(old)),
                 !.statusWrites = Drop(@, k)]

\* ------------------------------------------------------------------------
\* WebSocketServer (src/showrunner/lib/coordinate-loader.js)
\* ------------------------------------------------------------------------

\* sendError(ws, errorObj): ws.send() reaches the peer only while the socket is open
sendError(s, c, code, retryAfter) ==
    [s EXCEPT !.ws[c].sent = Append(@, [code |-> code, retryAfter |-> retryAfter,
                                        delivered |-> (s.ws[c].st = "open")])]

\* ws.close(): starts the closing handshake; 'close' is emitted later
close(s, c) ==
    IF s.ws[c].st = "open" THEN [s EXCEPT !.ws[c].st = "closing"] ELSE s

\* clearTimeout(handle)
clearTimeout(s, h) == [s EXCEPT !.timers = {t \in @ : t.id # h}]

\* a timer handle not in use
FreshTimer(s) ==
    CHOOSE h \in 1 .. (Cardinality(s.timers) + 1) : \A t \in s.timers : t.id # h

\* mutant: resetIdleTimer() without the clearTimeout of the pending timer
resetIdleTimer_NoClear(s) ==
    LET h == FreshTimer(s)
    IN [s EXCEPT !.timers = @ \cup {[id |-> h, at |-> s.now + s.config.wsIdleTimeout * 1000]},
                 !.idleTimer = h]

\* resetIdleTimer()
resetIdleTimer(s) ==
    LET u == IF s.idleTimer # NULL THEN clearTimeout(s, s.idleTimer) ELSE s
        h == FreshTimer(u)
    IN [u EXCEPT !.timers = @ \cup {[id |-> h, at |-> u.now + u.config.wsIdleTimeout * 1000]},
                 !.idleTimer = h]

\* acceptConnection(ws, clientIp)
acceptConnection(s, c) ==
    LET a == [s EXCEPT !.activeClient = c, !.activeClientConnectTime = s.now]
        p == pause(a)
        h == [p EXCEPT !.ws[c].attached = TRUE]
    IN resetIdleTimer(h)

\* mutant: eviction only when the age exceeds the eviction age
handleConnection_Strict(s, c) ==
    IF s.activeClient # NULL
    THEN LET ageMs == s.now - s.activeClientConnectTime
         IN IF ageMs > s.config.wsEvictionAge * 1000
            THEN acceptConnection(
                     close(sendError(s, s.activeClient, "EVICTED", 0),
                           s.activeClient),
                     c)
            ELSE close(sendError(s, c, "SERVER_BUSY",
                                 CeilDiv(s.config.wsEvictionAge * 1000 - ageMs, 1000)),
                       c)
    ELSE acceptConnection(s, c)

\* handleConnection(ws, req)
handleConnection(s, c) ==
    IF s.activeClient # NULL
    THEN LET ageMs == s.now - s.activeClientConnectTime
         IN IF ageMs >= s.config.wsEvictionAge * 1000
            THEN acceptConnection(
                     close(sendError(s, s.activeClient, "EVICTED", 0),
                           s.activeClient),
                     c)
            ELSE close(sendError(s, c, "SERVER_BUSY",
                                 CeilDiv(s.config.wsEvictionAge * 1000 - ageMs, 1000)),
                       c)
    ELSE acceptConnection(s, c)

\* mutant: no check that the sender is the active client
handleClientData_NoCheck(s, c, data) == write(resetIdleTimer(s), c, data)

\* handleClientData(data, ws)
handleClientData(s, c, data) ==
    IF c # s.activeClient THEN s
    ELSE write(resetIdleTimer(s), c, data)

\* the 'message' listener installed by acceptConnection, lines 268-274
onMessage(s, c, isBinary, data) ==
    IF isBinary THEN handleClientData(s, c, data) ELSE s

\* mutant: handleClientClose() without the test that ws is the active client
handleClientClose_NoCheck(s, c) ==
    LET t == IF s.idleTimer # NULL
             THEN [clearTimeout(s, s.idleTimer) EXCEPT !.idleTimer = NULL]
             ELSE s
    IN resume([t EXCEPT !.activeClient = NULL, !.activeClientConnectTime = NOTIME])

\* handleClientClose(ws)
handleClientClose(s, c) ==
    IF c # s.activeClient THEN s
    ELSE LET t == IF s.idleTimer # NULL
                  THEN [clearTimeout(s, s.idleTimer) EXCEPT !.idleTimer = NULL]
                  ELSE s
         IN resume([t EXCEPT !.activeClient = NULL, !.activeClientConnectTime = NOTIME])

\* handleClientError(error, ws)
handleClientError(s, c) == handleClientClose(s, c)

\* the setTimeout callback of resetIdleTimer, lines 366-377
idleTimeout(s) ==
    IF s.activeClient # NULL
    THEN close(sendError(s, s.activeClient, "IDLE_TIMEOUT", 0),
               s.activeClient)
    ELSE s

\* WebSocketServer.stop(), up to its await of wss.close()
wsServerStop(s) ==
    LET a == IF s.activeClient # NULL
             THEN close(sendError(s, s.activeClient, "SHUTDOWN", 0), s.activeClient)
             ELSE s
    IN IF a.idleTimer # NULL
       THEN [clearTimeout(a, a.idleTimer) EXCEPT !.idleTimer = NULL]
       ELSE a

\* ------------------------------------------------------------------------
\* Host actions: one per event-loop job
\* ------------------------------------------------------------------------

\* binary payloads a client sends (raw device commands) in the model
Payloads == {<<CMD_CLEAR_ALL>>, <<CMD_UPDATE_AND_FLUSH, 0, 1, 0, 16, 32, 48>>}

\* the next connection the environment opens
NextConn == IF \E c \in Conns : ws[c].st = "new"
            THEN CHOOSE c \in Conns : ws[c].st = "new" /\ \A d \in Conns : d < c => ws[d].st # "new"
            ELSE NULL

\* the host state at the start of a job
Job(type, c, isBinary) ==
    [Cur EXCEPT !.event = [type |-> type, conn |-> c, isBinary |-> isBinary]]

\* main(), step 2: await coordLoader.load(); an error is fatal
LoadCoordinates ==
    /\ mainPc = "loading"
    /\ LET loaded == load(coordFile)
           s == Job("load", NULL, FALSE)
       IN Commit(IF loaded.ok
                 THEN [s EXCEPT !.mainPc = "connecting",
                                !.rawCoordinates = loaded.rawCoordinates,
                                !.coordinates = loaded.coordinates]
                 ELSE [s EXCEPT !.mainPc = "failed"])

\* serialConn 'message' event: a line of the device, trimmed
SerialMessage ==
    /\ received < MaxMessages
    /\ \E line \in {<<"S", "T", "A", "T", "S", " ", "u", "p", "=", "1">>,
                    <<"S", "T", "A", "T", "S", " ", "u", "p", "=", "2", " ", "F", "A", "U", "L", "T",
                      " ", "m", "o", "d", "e", "=", "t", "e", "s", "t">>,
                    <<"S", "T", "A", "T", "S">>,
                    <<"O", "K">>,
                    <<>>} :
           Commit([handleMessage(Job("message", NULL, FALSE), line) EXCEPT !.received = @ + 1])

\* a writeFile() in progress has opened the status file
FileOpened ==
    \E k \in 1 .. Len(statusWrites) :
        /\ statusWrites[k].pc = "open"
        /\ Commit(writeFile_open(Job("fileOpened", NULL, FALSE), k))

\* a writeFile() in progress has written its content
FileWritten ==
    \E k \in 1 .. Len(statusWrites) :
        /\ statusWrites[k].pc = "write"
        /\ Commit(writeFile_write(Job("fileWritten", NULL, FALSE), k))

\* main(): await engine.start()
MainStart ==
    /\ mainPc = "serving"
    /\ Commit(start([Job("start", NULL, FALSE) EXCEPT !.mainPc = "started"]))

\* a render loop's frame timer fires: the loop re-tests this.running
LoopWake ==
    /\ loops > 0
    /\ Commit(IF running THEN renderFrame(Job("wake", NULL, FALSE))
              ELSE [Job("wake", NULL, FALSE) EXCEPT !.loops = @ - 1])

\* wss 'connection' event
Connect ==
    /\ script = <<>>
    /\ NextConn # NULL
    /\ Commit(handleConnection([Job("connect", NextConn, FALSE) EXCEPT !.ws[NextConn].st = "open"],
                               NextConn))

\* wss 'connection' event at the time the scenario fixes
ScriptConnect ==
    /\ script # <<>>
    /\ now = Head(script)
    /\ NextConn # NULL
    /\ Commit(handleConnection([Job("connect", NextConn, FALSE) EXCEPT
                                    !.ws[NextConn].st = "open", !.script = Tail(@)],
                               NextConn))

\* ws 'message' event; a socket the server is closing still delivers messages.
\* Only an accepted socket has a 'message' listener.
ClientMessage ==
    \E c \in Conns, isBinary \in BOOLEAN, data \in Payloads :
        /\ ws[c].st \in {"open", "closing"}
        /\ ws[c].attached
        /\ Commit(onMessage(Job("message", c, isBinary), c, isBinary, data))

\* the 'close' listener of a socket, if it has one
onClose(s, c) == IF s.ws[c].attached THEN handleClientClose(s, c) ELSE s

\* the peer closes: ws 'close' event
ClientClose ==
    \E c \in Conns :
        /\ ws[c].st = "open"
        /\ Commit(onClose([Job("close", c, FALSE) EXCEPT !.ws[c].st = "closed"], c))

\* ws 'close' event after the server's close() or after a socket error
CloseEvent ==
    \E c \in Conns :
        /\ ws[c].st \in {"closing", "errored"}
        /\ Commit(onClose([Job("close", c, FALSE) EXCEPT !.ws[c].st = "closed"], c))

\* ws 'error' event; 'close' follows
SocketError ==
    \E c \in Conns :
        /\ ws[c].st \in {"open", "closing"}
        /\ ws[c].attached
        /\ Commit(handleClientError([Job("error", c, FALSE) EXCEPT !.ws[c].st = "errored"], c))

\* the idle timer expires
IdleFire ==
    \E t \in timers :
        /\ t.at <= now
        /\ Commit(idleTimeout([Job("idle", NULL, FALSE) EXCEPT !.timers = @ \ {t}]))

\* process 'uncaughtException' handler: engine.stop(), serial.close(),
\* process.exit(1)
uncaughtException(s) == [stop(s) EXCEPT !.mainPc = "exited"]

\* the completion callback of port.write() in SerialConnection.write(): on an
\* error it logs and emits 'error' on the connection. Nothing listens for
\* 'error' on the connection, so emit() throws the error out of the callback.
write_callback(s, err) == IF err THEN uncaughtException(s) ELSE s

\* the completion callbacks of the writes of the last job, none with an error
WriteDone ==
    /\ mainPc # "exited"
    /\ wrote # <<>>
    /\ Commit(write_callback(Job("written", NULL, FALSE), FALSE))

\* a completion callback of a write of the last job reports an error; the
\* port stays open
WriteError ==
    /\ mainPc # "exited"
    /\ wrote # <<>>
    /\ Commit(write_callback(Job("writeError", NULL, FALSE), TRUE))

\* port 'close' event: the connection emits 'disconnect', whose listener
\* calls process.exit(1)
SerialDisconnect ==
    /\ mainPc # "exited"
    /\ Commit([Job("disconnect", NULL, FALSE) EXCEPT !.mainPc = "exited"])

\* SIGINT / SIGTERM: shutdown() up to `await wsServer.stop()`
Shutdown ==
    /\ mainPc = "started"
    /\ Commit([wsServerStop(stop(Job("signal", NULL, FALSE))) EXCEPT !.mainPc = "stopping"])

\* the callback of wss.close(): shutdown() goes on to serial.clearAll() and
\* waits 100 ms. (Whether the callback waits for the sockets to close depends
\* on the version of the ws library: it may come before or after their
\* 'close' events.)
WssClosed ==
    /\ mainPc = "stopping"
    /\ Commit([clearAll(Job("wssClosed", NULL, FALSE)) EXCEPT !.mainPc = "clearing"])

\* the 100 ms have passed: switcher.stop(), serial.close(), process.exit(0)
ShutdownExit ==
    /\ mainPc = "clearing"
    /\ Commit([Job("exit", NULL, FALSE) EXCEPT !.mainPc = "exited"])

\* what the control file is rewritten to
Contents == {<<"A.js">>, <<"B.js", "\n">>, <<"bad.js">>, <<" ", "\n">>}

\* the control file is rewritten; the watcher's 'change' event calls
\* handleFileChange(), which awaits readFile(controlFile)
ControlFileWrite ==
    \E content \in Contents :
        /\ edits < MaxEdits
        /\ Commit([Job("edit", NULL, FALSE) EXCEPT
                      !.controlFile = content,
                      !.tasks = Append(@, [pc |-> "read", name |-> ""]),
                      !.edits = @ + 1])

\* readFile(controlFile) of a handleFileChange() resolves
HandleFileChange ==
    \E k \in DOMAIN tasks :
        /\ tasks[k].pc = "read"
        /\ Commit(handleFileChange(Job("fileRead", NULL, FALSE), k))

\* loadAnimation() of a switchAnimation() settles: it resolves ("loaded") or
\* rejects ("loadFailed")
SwitchAnimation ==
    \E k \in DOMAIN tasks :
        /\ tasks[k].pc = "load"
        /\ Commit(switchAnimation(
               Job(IF loadAnimation(tasks[k].name).ok THEN "loaded" ELSE "loadFailed",
                   NULL, FALSE), k))

\* earliest instant the clock may not skip: a pending timer or a scripted connection
Horizon ==
    LET due == {t.at : t \in timers} \cup (IF script # <<>> THEN {Head(script)} ELSE {})
    IN IF due = {} THEN MaxTime ELSE Min(MaxTime, CHOOSE m \in due : \A x \in due : m <= x)

\* time passes
Advance ==
    \E d \in {500, 700} :
        /\ now < Horizon
        /\ Commit([Job("advance", NULL, FALSE) EXCEPT !.now = Min(now + d, Horizon)])

\* ------------------------------------------------------------------------
\* Device firmware: src/animation_designer/default_script.js (C part)
\* ------------------------------------------------------------------------

NUM_CHANNELS == 8

MAX_LEDS_PER_CHANNEL == 200

CURRENT_LIMIT_THRESHOLD == 30000

TEST_PATTERN_DEFAULT_LEDS == 200

NUM_TEST_PATTERNS == 6

TEST_PATTERN_TIMEOUT_MS == 5000

\* the clock is observed every SilenceStep ms
SilenceStep == 2500

TERNARY_NUM_DIGITS == 9

\* 60.0 C, in 0.1 C
FAULT_TEMP_THRESHOLD == 600

\* 10.0 A, in 0.1 A
FAULT_CURRENT_THRESHOLD == 100

\* 1.0 V, in 0.1 V
FAULT_VOLTAGE_THRESHOLD == 10

Chans == 0 .. NUM_CHANNELS - 1

Leds == 0 .. MAX_LEDS_PER_CHANNEL - 1

\* The device state as one record, so that a firmware function is a function on it.
\* reboot: watchdog_reboot() was called in this main-loop step.
Dev ==
    [channels |-> channels, parser |-> parser, stats |-> stats, system_mode |-> system_mode,
     current_test_pattern |-> current_test_pattern, frame_counter |-> frame_counter,
     dma |-> dma, rx |-> rx, hazard |-> hazard, nrx |-> nrx,
     since_serial |-> since_serial, sensors |-> sensors, fault_present |-> fault_present,
     fault_history |-> fault_history, fb_channel_idx |-> fb_channel_idx,
     sensor_cycle_counter |-> sensor_cycle_counter, reads |-> reads, reports |-> reports,
     ternary |-> ternary,
     reboot |-> FALSE]

\* calc_gamma_table(2.8f): gamma_lut[i] = (uint8_t)(powf(i / 255.0f, 2.8f) * 255.0f + 0.5f).
\* gamma_lut[i] of the firmware is the (i+1)-th element.
gamma_lut == <<
      0,   0,   0,   0,   0,   0,   0,   0,   0,   0,   0,   0,   0,   0,   0,   0,
      0,   0,   0,   0,   0,   0,   0,   0,   0,   0,   0,   0,   1,   1,   1,   1,
      1,   1,   1,   1,   1,   1,   1,   1,   1,   2,   2,   2,   2,   2,   2,   2,
      2,   3,   3,   3,   3,   3,   3,   3,   4,   4,   4,   4,   4,   5,   5,   5,
      5,   6,   6,   6,   6,   7,   7,   7,   7,   8,   8,   8,   9,   9,   9,  10,
     10,  10,  11,  11,  11,  12,  12,  13,  13,  13,  14,  14,  15,  15,  16,  16,
     17,  17,  18,  18,  19,  19,  20,  20,  21,  21,  22,  22,  23,  24,  24,  25,
     25,  26,  27,  27,  28,  29,  29,  30,  31,  32,  32,  33,  34,  35,  35,  36,
     37,  38,  39,  39,  40,  41,  42,  43,  44,  45,  46,  47,  48,  49,  50,  50,
     51,  52,  54,  55,  56,  57,  58,  59,  60,  61,  62,  63,  64,  66,  67,  68,
     69,  70,  72,  73,  74,  75,  77,  78,  79,  81,  82,  83,  85,  86,  87,  89,
     90,  92,  93,  95,  96,  98,  99, 101, 102, 104, 105, 107, 109, 110, 112, 114,
    115, 117, 119, 120, 122, 124, 126, 127, 129, 131, 133, 135, 137, 138, 140, 142,
    144, 146, 148, 150, 152, 154, 156, 158, 160, 162, 164, 167, 169, 171, 173, 175,
    177, 180, 182, 184, 186, 189, 191, 193, 196, 198, 200, 203, 205, 208, 210, 213,
    215, 218, 220, 223, 225, 228, 231, 233, 236, 239, 241, 244, 247, 249, 252, 255 >>

gamma_correct(value) == gamma_lut[value + 1]

\* A colour word is kept without the final << 8 (the firmware stores
\* ((g << 16) | (r << 8) | b) << 8 and every reader shifts it back).
rgb_to_grb(r, g, b) == gamma_correct(g) * 65536 + gamma_correct(r) * 256 + gamma_correct(b)

PixelG(p) == (p \div 65536) % 256

PixelR(p) == (p \div 256) % 256

PixelB(p) == p % 256

calculate_brightness_units(p) == PixelR(p) + PixelG(p) + PixelB(p)

Pow2(n) == 2 ^ n

\* number of bits of n: 0 for 0, k for 2^(k-1) <= n < 2^k
BitLen(n) == CHOOSE k \in 0 .. 30 : n < Pow2(k) /\ (k = 0 \/ n >= Pow2(k - 1))

\* float scale = (float)CURRENT_LIMIT_THRESHOLD / (float)total_brightness, total > threshold:
\* IEEE single precision, round to nearest even. The result is m * 2^-e with
\* 2^23 <= m <= 2^24, given as <<m, e>>. The quotient threshold * 2^e / total is
\* taken 12 bits, 12 bits and e - 24 bits at a time.
FloatScale(total) ==
    LET k == CHOOSE x \in 0 .. 7 : Pow2(x + 1) * CURRENT_LIMIT_THRESHOLD >= total
                                   /\ (x = 0 \/ Pow2(x) * CURRENT_LIMIT_THRESHOLD < total)
        n1 == CURRENT_LIMIT_THRESHOLD * 4096
        n2 == (n1 % total) * 4096
        n3 == (n2 % total) * Pow2(k)
        m == ((n1 \div total) * 4096 + (n2 \div total)) * Pow2(k) + (n3 \div total)
        rem == n3 % total
        up == 2 * rem > total \/ (2 * rem = total /\ m % 2 = 1)
    IN <<IF up THEN m + 1 ELSE m, 24 + k>>

\* (uint8_t)(c * scale): the single-precision product (round to nearest even of
\* the exact c * m * 2^-e), truncated towards zero
ScaleByte(c, scale) ==
    LET m == scale[1]
        e == scale[2]
        lo == c * (m % 4096)
        hi == c * (m \div 4096) + (lo \div 4096)      \* c * m = hi * 4096 + lo % 4096
        k == hi \div Pow2(e - 12)                     \* floor of the exact product
        frac == (hi % Pow2(e - 12)) * 4096 + (lo % 4096)
        len == IF hi = 0 THEN BitLen(lo) ELSE BitLen(hi) + 12
    IN IF len > 24 /\ frac > 0 /\ 2 * (Pow2(e) - frac) <= Pow2(len - 24) THEN k + 1 ELSE k

ScalePixel(p, scale) ==
    ScaleByte(PixelG(p), scale) * 65536 + ScaleByte(PixelR(p), scale) * 256
        + ScaleByte(PixelB(p), scale)

\* A buffer (uint32_t[MAX_LEDS_PER_CHANNEL]) is kept as the map of its non-zero
\* words: the array element i is Word(buf, i).
Word(buf, i) == IF i \in DOMAIN buf THEN buf[i] ELSE 0

\* the buffer after memset(buffer, 0, sizeof(buffer))
Zeroed == [i \in {} |-> 0]

\* buf with element idx set to word
StoreWord(buf, idx, word) ==
    IF word = 0 THEN [i \in DOMAIN buf \ {idx} |-> buf[i]]
    ELSE [i \in DOMAIN buf \cup {idx} |-> IF i = idx THEN word ELSE buf[i]]

\* f, worked out once for its whole domain (a function given by a rule is
\* otherwise worked out anew at every application)
Tabulated(f) == IF f = f THEN f ELSE f

Buffer(ch, which) == IF which = "a" THEN ch.buffer_a ELSE ch.buffer_b

\* a write of buf into the active buffer of channel c; it races if the DMA
\* hardware is reading that buffer
StoreActive(d, c, buf, kind) ==
    LET ch == d.channels[c]
        d1 == IF ch.active_buffer = "a" THEN [d EXCEPT !.channels[c].buffer_a = Tabulated(buf)]
                                        ELSE [d EXCEPT !.channels[c].buffer_b = Tabulated(buf)]
    IN [d1 EXCEPT !.hazard = IF d.dma[c].busy /\ d.dma[c].src = ch.active_buffer
                             THEN @ \cup {kind} ELSE @]

\* total_brightness: the sum of calculate_brightness_units(buf[i]) for i < n,
\* taken as the size of the bag that holds LED i that many times (a word
\* that is zero adds nothing)
TotalBrightness(buf, n) ==
    BagCardinality([i \in {j \in DOMAIN buf : j < n} |-> calculate_brightness_units(buf[i])])

\* mutant: the limiter also acts on a sum equal to the threshold
apply_current_limiting_AtThreshold(d, c) ==
    LET ch == d.channels[c]
        buf == Buffer(ch, ch.active_buffer)
        total_brightness == TotalBrightness(buf, ch.led_count)
        scale == FloatScale(total_brightness)
        scaled == Tabulated([w \in {buf[j] : j \in {k \in DOMAIN buf : k < ch.led_count}} |->
                                ScalePixel(w, scale)])
        limited == [i \in {j \in DOMAIN buf : j >= ch.led_count \/ scaled[buf[j]] # 0} |->
                       IF i < ch.led_count THEN scaled[buf[i]] ELSE buf[i]]
    IN IF ch.led_count = 0 THEN d
       ELSE IF total_brightness >= CURRENT_LIMIT_THRESHOLD
            THEN [StoreActive(d, c, limited, "limiter")
                    EXCEPT !.channels[c].current_limit_events = @ + 1]
            ELSE d

apply_current_limiting(d, c) ==
    LET ch == d.channels[c]
        buf == Buffer(ch, ch.active_buffer)
        total_brightness == TotalBrightness(buf, ch.led_count)
        scale == FloatScale(total_brightness)
        \* the scaled word, per distinct word of the frame
        scaled == Tabulated([w \in {buf[j] : j \in {k \in DOMAIN buf : k < ch.led_count}} |->
                                ScalePixel(w, scale)])
        limited == [i \in {j \in DOMAIN buf : j >= ch.led_count \/ scaled[buf[j]] # 0} |->
                       IF i < ch.led_count THEN scaled[buf[i]] ELSE buf[i]]
    IN IF ch.led_count = 0 THEN d
       ELSE IF total_brightness > CURRENT_LIMIT_THRESHOLD
            THEN [StoreActive(d, c, limited, "limiter")
                    EXCEPT !.channels[c].current_limit_events = @ + 1]
            ELSE d

\* dma_channel_wait_for_finish_blocking(): returns when the hardware is idle
dma_channel_wait_for_finish_blocking(d, c) == [d EXCEPT !.dma[c].busy = FALSE]

\* ws2812_channel_update without the wait for the DMA in progress
ws2812_channel_update_NoWait(d, c) ==
    LET ch == d.channels[c]
    IN IF ch.led_count = 0 THEN d
       ELSE [d EXCEPT !.channels[c].active_buffer = ch.output_buffer,
                      !.channels[c].output_buffer = ch.active_buffer,
                      !.channels[c].dma_in_progress = TRUE,
                      !.dma[c] = [busy |-> TRUE, src |-> ch.active_buffer],
                      !.hazard = IF d.dma[c].busy THEN @ \cup {"swap"} ELSE @,
                      !.stats.flushes = @ + 1]

ws2812_channel_update(d, c) ==
    LET ch == d.channels[c]
        w == IF ch.dma_in_progress
             THEN [dma_channel_wait_for_finish_blocking(d, c)
                      EXCEPT !.channels[c].dma_in_progress = FALSE]
             ELSE d
    IN IF ch.led_count = 0 THEN d
       ELSE [w EXCEPT !.channels[c].active_buffer = ch.output_buffer,
                      !.channels[c].output_buffer = ch.active_buffer,
                      !.channels[c].dma_in_progress = TRUE,
                      !.dma[c] = [busy |-> TRUE, src |-> ch.active_buffer],
                      !.hazard = IF w.dma[c].busy THEN @ \cup {"swap"} ELSE @,
                      !.stats.flushes = @ + 1]

RECURSIVE FlushFrom(_, _, _)
FlushFrom(d, channel_mask, i) ==
    IF i = NUM_CHANNELS \/ d.reboot THEN d
    ELSE FlushFrom(IF (channel_mask \div Pow2(i)) % 2 = 1 THEN ws2812_channel_update(d, i) ELSE d,
                   channel_mask, i + 1)

\* mutant: flush_channels ignores the mask
flush_channels_All(d, channel_mask) == FlushFrom(d, 255, 0)

flush_channels(d, channel_mask) == FlushFrom(d, channel_mask, 0)

\* test_pattern_colors[ch]
test_pattern_colors ==
    [ch \in Chans |->
        CASE ch = 0 -> <<255, 0, 0>>
          [] ch = 1 -> <<0, 255, 0>>
          [] ch = 2 -> <<0, 0, 255>>
          [] ch = 3 -> <<0, 255, 255>>
          [] ch = 4 -> <<255, 0, 255>>
          [] ch = 5 -> <<255, 255, 0>>
          [] ch = 6 -> <<255, 128, 128>>
          [] ch = 7 -> <<128, 128, 255>>]

\* PATTERN_COLOR_CYCLE: colors[phase]
cycle_colors ==
    [phase \in 0 .. 7 |->
        CASE phase = 0 -> <<255, 0, 0>>
          [] phase = 1 -> <<0, 255, 0>>
          [] phase = 2 -> <<0, 0, 255>>
          [] phase = 3 -> <<0, 255, 255>>
          [] phase = 4 -> <<255, 0, 255>>
          [] phase = 5 -> <<255, 255, 0>>
          [] phase = 6 -> <<255, 255, 255>>
          [] phase = 7 -> <<0, 0, 0>>]

\* ternary_colors[digit]
ternary_colors ==
    [digit \in 0 .. 2 |->
        CASE digit = 0 -> <<255, 0, 0>>
          [] digit = 1 -> <<0, 255, 0>>
          [] digit = 2 -> <<0, 0, 255>>]

Grb(rgb) == rgb_to_grb(rgb[1], rgb[2], rgb[3])

RECURSIVE DivBy3(_, _)
DivBy3(n, times) == IF times = 0 THEN n ELSE DivBy3(n \div 3, times - 1)

\* mutant: the checksum is added to the id itself, not to id * 9
get_ternary_digit_NoSpread(led_id, digit_pos) ==
    DivBy3(led_id + (7 - (led_id % 7)), digit_pos) % 3

get_ternary_digit(led_id, digit_pos) ==
    LET n == led_id * 9
    IN DivBy3(n + (7 - (n % 7)), digit_pos) % 3

activate_test_pattern(d, pattern_id) ==
    [d EXCEPT !.channels = [c \in Chans |-> [@[c] EXCEPT !.led_count = TEST_PATTERN_DEFAULT_LEDS]],
              !.system_mode = "MODE_TEST_PATTERN",
              !.current_test_pattern = pattern_id % NUM_TEST_PATTERNS]

stop_test_pattern(d) == [d EXCEPT !.system_mode = "MODE_NORMAL"]

\* the colour word update_test_pattern() stores at LED i of channel ch
\* (patterns 0 .. 4; the inputs of the model never select PATTERN_COLORFUL_TWINKLE)
PatternPixel(pattern, fc, ch, i, led_count) ==
    CASE pattern = 0 ->
            LET blink_state == (fc \div 15) % 2 = 1
                num_ident_leds == ch + 1
                is_first == i < num_ident_leds
                is_last == i >= led_count - num_ident_leds
            IN IF is_first THEN (IF blink_state THEN Grb(test_pattern_colors[ch]) ELSE rgb_to_grb(0, 0, 0))
               ELSE IF is_last THEN (IF ~blink_state THEN Grb(test_pattern_colors[ch]) ELSE rgb_to_grb(0, 0, 0))
               ELSE rgb_to_grb(0, 0, 0)
      [] pattern = 1 ->
            LET phase == (fc \div 30) % 3
            IN rgb_to_grb(IF phase = 0 THEN 255 ELSE 0, IF phase = 1 THEN 255 ELSE 0,
                          IF phase = 2 THEN 255 ELSE 0)
      [] pattern = 2 -> Grb(cycle_colors[(fc \div 30) % 8])
      [] pattern = 3 ->
            LET blink_state == (fc \div 15) % 2 = 1
            IN IF i = 0 THEN (IF blink_state THEN rgb_to_grb(255, 0, 0) ELSE rgb_to_grb(0, 0, 0))
               ELSE IF i = led_count - 1
                    THEN (IF blink_state THEN rgb_to_grb(0, 0, 0) ELSE rgb_to_grb(255, 0, 0))
                    ELSE rgb_to_grb(0, 0, 0)
      [] pattern = 4 ->
            LET cycle_frame == (fc \div 6) % (3 + TERNARY_NUM_DIGITS * 2)
                digit_frame == cycle_frame - 3
            IN IF cycle_frame = 0 \/ cycle_frame = 2 THEN rgb_to_grb(0, 0, 0)
               ELSE IF cycle_frame = 1 THEN rgb_to_grb(255, 0, 255)
               ELSE IF digit_frame % 2 = 0
                    THEN Grb(ternary_colors[get_ternary_digit(ch * TEST_PATTERN_DEFAULT_LEDS + i,
                                                              digit_frame \div 2)])
                    ELSE rgb_to_grb(0, 0, 0)

\* the words update_test_pattern() stores at LEDs 0 .. led_count-1 of channel
\* ch, as the map of the non-zero ones
PatternFrame(pattern, fc, ch, led_count) ==
    LET frame == Tabulated([i \in {j \in Leds : j < led_count} |->
                               PatternPixel(pattern, fc, ch, i, led_count)])
    IN Tabulated([i \in {j \in DOMAIN frame : frame[j] # 0} |-> frame[i]])

\* PatternFrame for the led_count that activate_test_pattern() sets, worked out
\* once per pattern, frame and channel
DefaultFrames ==
    Tabulated([key \in (0 .. 4) \X (1 .. MaxFrames) \X Chans |->
                  PatternFrame(key[1], key[2], key[3], TEST_PATTERN_DEFAULT_LEDS)])

\* one channel of a pattern frame: fill, limit, flush
RECURSIVE PatternChannels(_, _)
PatternChannels(d, ch) ==
    IF ch = NUM_CHANNELS \/ d.reboot THEN d
    ELSE LET c == d.channels[ch]
             buf == Buffer(c, c.active_buffer)
             key == <<d.current_test_pattern, d.frame_counter, ch>>
             frame == IF c.led_count = TEST_PATTERN_DEFAULT_LEDS /\ key \in DOMAIN DefaultFrames
                      THEN DefaultFrames[key]
                      ELSE PatternFrame(key[1], key[2], ch, c.led_count)
             filled == [i \in DOMAIN frame \cup {j \in DOMAIN buf : j >= c.led_count} |->
                          IF i < c.led_count THEN frame[i] ELSE buf[i]]
             d1 == IF c.led_count > 0 THEN StoreActive(d, ch, filled, "pattern") ELSE d
         IN PatternChannels(ws2812_channel_update(apply_current_limiting(d1, ch), ch), ch + 1)

\* update_test_pattern(), when a pattern frame is due (30 Hz)
update_test_pattern(d) ==
    IF d.system_mode # "MODE_TEST_PATTERN" THEN d
    ELSE PatternChannels([d EXCEPT !.frame_counter = @ + 1], 0)

\* update_sensors() past its rate limit, with the readings this call takes: fb
\* the feedback voltage of channel fb_channel_idx, temp what
\* read_ntc_temperature() returns and ina what the INA226 returns (the last two
\* are read in some cycles only)
update_sensors(d, fb, temp, ina) ==
    LET idx == d.fb_channel_idx
        cycle == d.sensor_cycle_counter
        active == fb > FAULT_VOLTAGE_THRESHOLD
        bit == (d.sensors.fb_mask \div Pow2(idx)) % 2
        feedback == [d.sensors EXCEPT
                        !.fb_voltages[idx] = fb,
                        !.fb_mask = IF active THEN @ + (1 - bit) * Pow2(idx)
                                    ELSE @ - bit * Pow2(idx)]
        ntc == IF cycle = 0 THEN [feedback EXCEPT !.temp0 = temp]
               ELSE IF cycle = 10 THEN [feedback EXCEPT !.temp1 = temp]
               ELSE feedback
    IN [d EXCEPT
           !.sensors = IF ntc.ina226_present /\ cycle % 5 = 2
                       THEN [ntc EXCEPT !.voltage = ina.voltage, !.current = ina.current]
                       ELSE ntc,
           !.channels[idx].tripped = ~active,
           !.channels[idx].trip_count =
               IF ~active /\ ~d.channels[idx].tripped THEN @ + 1 ELSE @,
           !.fb_channel_idx = (idx + 1) % NUM_CHANNELS,
           !.sensor_cycle_counter = (cycle + 1) % 20,
           !.reads = @ + 1]

\* mutant: a fault that has passed clears the history
print_status_report_NoLatch(d) ==
    LET present == \/ d.sensors.temp0 > FAULT_TEMP_THRESHOLD
                   \/ d.sensors.temp1 > FAULT_TEMP_THRESHOLD
                   \/ d.sensors.current > FAULT_CURRENT_THRESHOLD
                   \/ d.sensors.fb_mask # 255
    IN [d EXCEPT !.fault_present = present, !.fault_history = present, !.reports = @ + 1]

\* print_status_report() once STATUS_REPORT_INTERVAL_MS has passed
print_status_report(d) ==
    LET present == \/ d.sensors.temp0 > FAULT_TEMP_THRESHOLD
                   \/ d.sensors.temp1 > FAULT_TEMP_THRESHOLD
                   \/ d.sensors.current > FAULT_CURRENT_THRESHOLD
                   \/ d.sensors.fb_mask # 255
    IN [d EXCEPT !.fault_present = present, !.fault_history = @ \/ present, !.reports = @ + 1]

\* check_timeout()
check_timeout(d) ==
    IF d.system_mode = "MODE_NORMAL" /\ d.since_serial > TEST_PATTERN_TIMEOUT_MS
    THEN activate_test_pattern(d, 0)
    ELSE d

\* CMD_CLEAR_ALL: the loop over the channels
RECURSIVE ClearChannels(_, _)
ClearChannels(d, ch) ==
    IF ch = NUM_CHANNELS \/ d.reboot THEN d
    ELSE LET d1 == [d EXCEPT !.channels[ch].led_count = MAX_LEDS_PER_CHANNEL]
             d2 == StoreActive(d1, ch, Zeroed, "memset")
         IN ClearChannels(ws2812_channel_update(d2, ch), ch + 1)

\* parse_uart_data(): case STATE_WAIT_COMMAND
STATE_WAIT_COMMAND(d, byte) ==
    LET d0 == [d EXCEPT !.parser.current_command = byte, !.stats.commands = @ + 1]
    IN CASE byte = CMD_UPDATE_AND_FLUSH ->
               [d0 EXCEPT !.parser.auto_flush = TRUE, !.parser.state = "STATE_READ_CHANNEL"]
         [] byte = CMD_UPDATE_ONLY ->
               [d0 EXCEPT !.parser.auto_flush = FALSE, !.parser.state = "STATE_READ_CHANNEL"]
         [] byte = CMD_FLUSH -> [d0 EXCEPT !.parser.state = "STATE_READ_FLUSH_MASK"]
         [] byte = CMD_RESET -> [d0 EXCEPT !.reboot = TRUE]
         [] byte = CMD_START_PATTERN -> [d0 EXCEPT !.parser.state = "STATE_READ_PATTERN_ID"]
         [] byte = CMD_STOP_PATTERN -> stop_test_pattern(d0)
         [] byte = CMD_CLEAR_ALL -> ClearChannels(stop_test_pattern(d0), 0)
         [] OTHER -> d0

STATE_READ_PATTERN_ID(d, byte) ==
    [activate_test_pattern(d, byte) EXCEPT !.parser.state = "STATE_WAIT_COMMAND"]

STATE_READ_FLUSH_MASK(d, byte) ==
    [flush_channels(d, byte) EXCEPT !.parser.state = "STATE_WAIT_COMMAND"]

STATE_READ_CHANNEL(d, byte) ==
    IF byte < NUM_CHANNELS
    THEN [d EXCEPT !.parser.current_channel = byte, !.parser.state = "STATE_READ_COUNT_LOW"]
    ELSE [d EXCEPT !.stats.errors = @ + 1, !.parser.state = "STATE_WAIT_COMMAND"]

STATE_READ_COUNT_LOW(d, byte) ==
    [d EXCEPT !.parser.current_led_count = byte, !.parser.state = "STATE_READ_COUNT_HIGH"]

\* mutant: STATE_READ_COUNT_HIGH leaves the system mode alone
STATE_READ_COUNT_HIGH_KeepMode(d, byte) ==
    LET cnt == (d.parser.current_led_count + byte * 256) % 65536
        d0 == [d EXCEPT !.parser.current_led_count = cnt]
    IN IF cnt > 0 /\ cnt <= MAX_LEDS_PER_CHANNEL
       THEN [d0 EXCEPT !.parser.current_led_index = 0,
                       !.parser.rgb_byte_index = 0,
                       !.parser.state = "STATE_READ_RGB_DATA",
                       !.channels[d.parser.current_channel].led_count = cnt]
       ELSE [d0 EXCEPT !.stats.errors = @ + 1, !.parser.state = "STATE_WAIT_COMMAND"]

\* STATE_READ_COUNT_HIGH storing led_count before the count is validated
STATE_READ_COUNT_HIGH_StoreFirst(d, byte) ==
    LET cnt == (d.parser.current_led_count + byte * 256) % 65536
        d0 == [d EXCEPT !.parser.current_led_count = cnt,
                        !.channels[d.parser.current_channel].led_count = cnt]
    IN IF cnt > 0 /\ cnt <= MAX_LEDS_PER_CHANNEL
       THEN [d0 EXCEPT !.parser.current_led_index = 0,
                       !.parser.rgb_byte_index = 0,
                       !.parser.state = "STATE_READ_RGB_DATA",
                       !.system_mode = "MODE_NORMAL"]
       ELSE [d0 EXCEPT !.stats.errors = @ + 1, !.parser.state = "STATE_WAIT_COMMAND"]

\* mutant: STATE_READ_COUNT_HIGH without the upper limit of the count
STATE_READ_COUNT_HIGH_NoUpper(d, byte) ==
    LET cnt == (d.parser.current_led_count + byte * 256) % 65536
        d0 == [d EXCEPT !.parser.current_led_count = cnt]
    IN IF cnt > 0
       THEN [d0 EXCEPT !.parser.current_led_index = 0,
                       !.parser.rgb_byte_index = 0,
                       !.parser.state = "STATE_READ_RGB_DATA",
                       !.channels[d.parser.current_channel].led_count = cnt,
                       !.system_mode = "MODE_NORMAL"]
       ELSE [d0 EXCEPT !.stats.errors = @ + 1, !.parser.state = "STATE_WAIT_COMMAND"]

STATE_READ_COUNT_HIGH(d, byte) ==
    LET cnt == (d.parser.current_led_count + byte * 256) % 65536
        d0 == [d EXCEPT !.parser.current_led_count = cnt]
    IN IF cnt > 0 /\ cnt <= MAX_LEDS_PER_CHANNEL
       THEN [d0 EXCEPT !.parser.current_led_index = 0,
                       !.parser.rgb_byte_index = 0,
                       !.parser.state = "STATE_READ_RGB_DATA",
                       !.channels[d.parser.current_channel].led_count = cnt,
                       !.system_mode = "MODE_NORMAL"]
       ELSE [d0 EXCEPT !.stats.errors = @ + 1, !.parser.state = "STATE_WAIT_COMMAND"]

\* mutant: STATE_READ_RGB_DATA flushing at the end of every frame
STATE_READ_RGB_DATA_AlwaysFlush(d, byte) ==
    LET p == d.parser
        c == p.current_channel
        ch == d.channels[c]
        stored == [StoreActive(d, c, StoreWord(Buffer(ch, ch.active_buffer), p.current_led_index,
                                               rgb_to_grb(p.current_r, p.current_g, byte)), "store")
                     EXCEPT !.parser.current_b = byte,
                            !.parser.current_led_index = @ + 1,
                            !.parser.rgb_byte_index = 0,
                            !.stats.pixels = @ + 1]
        limited == apply_current_limiting(stored, c)
    IN CASE p.rgb_byte_index = 0 ->
               [d EXCEPT !.parser.current_r = byte, !.parser.rgb_byte_index = 1]
         [] p.rgb_byte_index = 1 ->
               [d EXCEPT !.parser.current_g = byte, !.parser.rgb_byte_index = 2]
         [] p.rgb_byte_index = 2 ->
               IF stored.parser.current_led_index >= p.current_led_count
               THEN [ws2812_channel_update(limited, c) EXCEPT !.parser.state = "STATE_WAIT_COMMAND"]
               ELSE stored

STATE_READ_RGB_DATA(d, byte) ==
    LET p == d.parser
        c == p.current_channel
        ch == d.channels[c]
        stored == [StoreActive(d, c, StoreWord(Buffer(ch, ch.active_buffer), p.current_led_index,
                                               rgb_to_grb(p.current_r, p.current_g, byte)), "store")
                     EXCEPT !.parser.current_b = byte,
                            !.parser.current_led_index = @ + 1,
                            !.parser.rgb_byte_index = 0,
                            !.stats.pixels = @ + 1]
        limited == apply_current_limiting(stored, c)
    IN CASE p.rgb_byte_index = 0 ->
               [d EXCEPT !.parser.current_r = byte, !.parser.rgb_byte_index = 1]
         [] p.rgb_byte_index = 1 ->
               [d EXCEPT !.parser.current_g = byte, !.parser.rgb_byte_index = 2]
         [] p.rgb_byte_index = 2 ->
               IF stored.parser.current_led_index >= p.current_led_count
               THEN [(IF p.auto_flush THEN ws2812_channel_update(limited, c) ELSE limited)
                        EXCEPT !.parser.state = "STATE_WAIT_COMMAND"]
               ELSE stored

\* parse_uart_data(): the switch on parser.state, for one byte
ParseByte(d, byte) ==
    CASE d.parser.state = "STATE_WAIT_COMMAND" -> STATE_WAIT_COMMAND(d, byte)
      [] d.parser.state = "STATE_READ_PATTERN_ID" -> STATE_READ_PATTERN_ID(d, byte)
      [] d.parser.state = "STATE_READ_FLUSH_MASK" -> STATE_READ_FLUSH_MASK(d, byte)
      [] d.parser.state = "STATE_READ_CHANNEL" -> STATE_READ_CHANNEL(d, byte)
      [] d.parser.state = "STATE_READ_COUNT_LOW" -> STATE_READ_COUNT_LOW(d, byte)
      [] d.parser.state = "STATE_READ_COUNT_HIGH" -> STATE_READ_COUNT_HIGH(d, byte)
      [] d.parser.state = "STATE_READ_RGB_DATA" -> STATE_READ_RGB_DATA(d, byte)

\* parse_uart_data(): the loop over the bytes read; nothing after a reset
\* command is processed
RECURSIVE ParseBytes(_, _)
ParseBytes(d, bytes) ==
    IF bytes = <<>> \/ d.reboot THEN d
    ELSE IF Len(bytes) = 1 THEN ParseByte(d, bytes[1])
    ELSE LET half == Len(bytes) \div 2
         IN ParseBytes(ParseBytes(d, SubSeq(bytes, 1, half)),
                       SubSeq(bytes, half + 1, Len(bytes)))

\* main(): the state when the main loop is entered (ws2812_channel_init for
\* every channel, the initialisers of parser and stats)
DevBoot ==
    [channels |-> [c \in Chans |->
                      [buffer_a |-> Zeroed, buffer_b |-> Zeroed,
                       active_buffer |-> "a", output_buffer |-> "b",
                       dma_in_progress |-> FALSE, led_count |-> 0,
                       current_limit_events |-> 0, tripped |-> FALSE, trip_count |-> 0]],
     parser |-> [state |-> "STATE_WAIT_COMMAND", current_command |-> 0, current_channel |-> 0,
                 current_led_count |-> 0, current_led_index |-> 0, rgb_byte_index |-> 0,
                 current_r |-> 0, current_g |-> 0, current_b |-> 0, auto_flush |-> TRUE],
     stats |-> [commands |-> 0, pixels |-> 0, flushes |-> 0, errors |-> 0],
     system_mode |-> "MODE_NORMAL", current_test_pattern |-> 0, frame_counter |-> 0,
     dma |-> [c \in Chans |-> [busy |-> FALSE, src |-> "none"]],
     rx |-> [bytes |-> <<>>, from |-> "STATE_WAIT_COMMAND"],
     hazard |-> {}, nrx |-> 0, since_serial |-> 0,
     sensors |-> [temp0 |-> 0, temp1 |-> 0, voltage |-> 0, current |-> 0, fb_mask |-> 255,
                  fb_voltages |-> [c \in Chans |-> 0], ina226_present |-> TRUE],
     fault_present |-> FALSE, fault_history |-> FALSE,
     fb_channel_idx |-> 0, sensor_cycle_counter |-> 0,
     reads |-> 0, reports |-> 0, ternary |-> [led_id |-> 0, digits |-> <<>>], reboot |-> FALSE]

\* watchdog_reboot(0, 0, 0): the chip resets and main() runs again;
\* ina226_init() finds the same hardware
watchdog_reboot(d) ==
    [DevBoot EXCEPT !.rx = d.rx, !.hazard = d.hazard, !.nrx = d.nrx, !.reads = d.reads,
                    !.reports = d.reports,
                    !.ternary = d.ternary,
                    !.sensors.ina226_present = d.sensors.ina226_present]

\* the device state after a step of its main loop
DevNext(d) ==
    LET e == IF d.reboot THEN watchdog_reboot(d) ELSE d
    IN /\ channels' = e.channels
       /\ parser' = e.parser
       /\ stats' = e.stats
       /\ system_mode' = e.system_mode
       /\ current_test_pattern' = e.current_test_pattern
       /\ frame_counter' = e.frame_counter
       /\ dma' = e.dma
       /\ rx' = e.rx
       /\ hazard' = e.hazard
       /\ nrx' = e.nrx
       /\ since_serial' = e.since_serial
       /\ sensors' = e.sensors
       /\ fault_present' = e.fault_present
       /\ fault_history' = e.fault_history
       /\ fb_channel_idx' = e.fb_channel_idx
       /\ sensor_cycle_counter' = e.sensor_cycle_counter
       /\ reads' = e.reads
       /\ reports' = e.reports
       /\ ternary' = e.ternary

\* a step of the device: the host does not move
DevCommit(d) == DevNext(d) /\ UNCHANGED hostVars

\* parse_uart_data() with `bytes` in uart_rx_buffer (not empty): every byte
\* sets last_serial_data_time to the current time
parse_uart_data(d, bytes) ==
    ParseBytes([d EXCEPT !.rx = [bytes |-> bytes, from |-> d.parser.state],
                         !.nrx = @ + 1,
                         !.since_serial = 0], bytes)

\* ms pass with nothing read from the serial port
Elapse(d, ms) == [d EXCEPT !.since_serial = Min(@ + ms, TEST_PATTERN_TIMEOUT_MS + SilenceStep)]

\* the device state at the start of a main-loop step that reads no bytes
Step == [Dev EXCEPT !.rx = [bytes |-> <<>>, from |-> parser.state]]

\* ------------------------------------------------------------------------
\* Device actions: the steps of the main loop, and the hardware
\* ------------------------------------------------------------------------

\* complete commands of the protocol
ValidCommands ==
    {<<CMD_UPDATE_AND_FLUSH, 0, 1, 0, 16, 32, 48>>,
     <<CMD_UPDATE_ONLY, 1, 1, 0, 255, 255, 255>>,
     <<CMD_FLUSH, 3>>,
     <<CMD_FLUSH, 254>>,
     <<CMD_CLEAR_ALL>>,
     <<CMD_START_PATTERN, 1>>,
     <<CMD_STOP_PATTERN>>,
     <<CMD_RESET>>}

\* Update headers up to and including the field that is out of range
InvalidHeaders ==
    {<<CMD_UPDATE_ONLY, 9>>,
     <<CMD_UPDATE_AND_FLUSH, 0, 0, 0>>,
     <<CMD_UPDATE_AND_FLUSH, 0, 201, 0>>,
     <<CMD_UPDATE_ONLY, 2, 0, 1>>}

\* a command cut short (the rest arrives with a later read, or never)
PartialCommands ==
    {<<CMD_UPDATE_ONLY>>,
     <<CMD_UPDATE_AND_FLUSH, 0>>,
     <<CMD_UPDATE_ONLY, 0, 2>>,
     <<CMD_UPDATE_ONLY, 0, 2, 0, 7>>,
     <<CMD_FLUSH>>}

\* scenario S5: Update only for channel 9 with the frame it announces
S5Invalid == <<CMD_UPDATE_ONLY, 9, 1, 0, 255, 0, 0>>

\* scenario S5: the valid command that follows
S5Valid == <<CMD_UPDATE_AND_FLUSH, 0, 1, 0, 16, 32, 48>>

\* a byte that is no command of the protocol
UnknownCommands == {<<0>>}

\* what one read of the USB serial port may deliver
Chunks ==
    ValidCommands \cup InvalidHeaders \cup PartialCommands \cup {S5Invalid} \cup UnknownCommands

ParseUartData ==
    \E bytes \in Chunks :
        /\ nrx < MaxChunks
        /\ DevCommit(parse_uart_data(Dev, bytes))

\* an Update command (cmd) for channel ch: n white LEDs, then one LED of colour last
WhiteThen(cmd, ch, n, last) ==
    <<cmd, ch, (n + 1) % 256, (n + 1) \div 256>> \o [i \in 1 .. 3 * n |-> 255] \o last

\* frames whose brightness sum lies below, at and above CURRENT_LIMIT_THRESHOLD
\* (the gamma table maps 189, 147, 148 and 100 to 110, 55, 56 and 18)
BrightFrames ==
    {WhiteThen(cmd, 0, n, last) :
        cmd \in {CMD_UPDATE_AND_FLUSH, CMD_UPDATE_ONLY},
        n \in {39, 40},
        last \in {<<189, 147, 0>>, <<189, 148, 0>>, <<255, 255, 255>>, <<0, 0, 0>>, <<100, 189, 147>>}}

\* one read of the serial port delivers a whole bright frame
ParseFrame ==
    \E bytes \in BrightFrames :
        /\ nrx < MaxBrightFrames
        /\ DevCommit(parse_uart_data(Dev, bytes))

\* commands with varying cnt for channel 0: Update only and Update and flush
\* with 39, 40 and 41 white LEDs (sums below and above
\* CURRENT_LIMIT_THRESHOLD), Flush, Clear All, Start pattern, Stop pattern
LimitCommands ==
    {<<cmd, 0, n, 0>> \o [i \in 1 .. 3 * n |-> 255] :
        cmd \in {CMD_UPDATE_ONLY, CMD_UPDATE_AND_FLUSH}, n \in {39, 41}}
    \cup {<<CMD_UPDATE_AND_FLUSH, 0, 40, 0>> \o [i \in 1 .. 120 |-> 255],
          <<CMD_FLUSH, 1>>, <<CMD_CLEAR_ALL>>, <<CMD_START_PATTERN, 0>>, <<CMD_STOP_PATTERN>>}

\* one read of the serial port delivers one command
ParseCommand ==
    \E bytes \in LimitCommands :
        /\ nrx < MaxCommands
        /\ DevCommit(parse_uart_data(Dev, bytes))

UpdateTestPattern ==
    /\ system_mode = "MODE_TEST_PATTERN"
    /\ frame_counter < MaxFrames
    /\ DevCommit(update_test_pattern(Step))

\* the main loop comes to update_sensors() 50 ms or more after the last
\* readings. The feedback voltage is below, at or above the trip threshold, a
\* temperature normal, at or above the fault threshold, the bus current
\* likewise.
UpdateSensors ==
    /\ reads < MaxSensorReads
    /\ \E fb \in {5, 10, 33}, temp \in {250, 600, 601},
          ina \in {[voltage |-> 50, current |-> 20], [voltage |-> 50, current |-> 100],
                   [voltage |-> 48, current |-> 101]} :
           DevCommit(update_sensors(Step, fb, temp, ina))

\* the main loop comes to print_status_report() a second or more after the
\* last report
PrintStatusReport ==
    /\ reports < MaxReports
    /\ DevCommit(print_status_report(Step))

\* button 0 is pressed: check_buttons() reboots the device
Button0 ==
    /\ Dev # watchdog_reboot(Dev)
    /\ DevCommit(watchdog_reboot(Step))

\* the serial port stays silent for more than TEST_PATTERN_TIMEOUT_MS, and the
\* main loop comes to check_timeout()
CheckTimeout ==
    /\ system_mode = "MODE_NORMAL"
    /\ DevCommit(check_timeout(Elapse(Step, 3 * SilenceStep)))

\* SilenceStep ms pass with nothing read; the main loop calls check_timeout()
\* on every turn
TimePasses ==
    /\ since_serial <= TEST_PATTERN_TIMEOUT_MS
    /\ DevCommit(check_timeout(Elapse(Step, SilenceStep)))

\* update_test_pattern(), pattern 4, watched on the LED ternary.led_id over one
\* cycle: the next digit frame shows get_ternary_digit(led_id, position)
ShowTernaryDigit ==
    /\ system_mode = "MODE_TEST_PATTERN"
    /\ current_test_pattern = 4
    /\ Len(ternary.digits) < TERNARY_NUM_DIGITS
    /\ DevCommit([Dev EXCEPT
           !.ternary.digits = Append(@, get_ternary_digit(ternary.led_id, Len(@)))])

\* the DMA hardware finishes the transfers in progress (the channels do not
\* interact: each channel is seen both with its transfer running and finished)
DmaDone ==
    /\ {c \in Chans : dma[c].busy} # {}
    /\ DevCommit([Step EXCEPT !.dma = [c \in Chans |-> [@[c] EXCEPT !.busy = FALSE]]])

RECURSIVE Flatten(_)
\* the bytes of the port.write() calls w, in the order they reach the device
Flatten(w) == IF w = <<>> THEN <<>> ELSE Head(w).data \o Flatten(Tail(w))

\* a job of the host whose serial writes the device reads in one
\* parse_uart_data() call
Linked(s) ==
    /\ s.wrote # <<>>
    /\ nrx < MaxChunks
    /\ HostNext(s)
    /\ DevNext(parse_uart_data(Dev, Flatten(s.wrote)))

\* main(): await engine.start(); the device reads the first tick
StartLinked ==
    /\ mainPc = "serving"
    /\ Linked(start([Job("start", NULL, FALSE) EXCEPT !.mainPc = "started"]))

\* a render loop's frame timer fires; the device reads the tick
WakeLinked ==
    /\ loops > 0
    /\ running
    /\ Linked(renderFrame(Job("wake", NULL, FALSE)))

\* wss 'connection' event while the render loop runs; the device reads what
\* the job writes
ConnectLinked ==
    /\ mainPc = "started"
    /\ NextConn # NULL
    /\ Linked(handleConnection([Job("connect", NextConn, FALSE) EXCEPT !.ws[NextConn].st = "open"],
                               NextConn))

\* SilenceStep ms pass on both sides of the serial line with the render loop
\* not running (a running loop writes a tick every frame interval) and no
\* timer of the host due; the device's main loop calls check_timeout() on
\* every turn
SilenceLinked ==
    /\ ~running
    /\ since_serial <= TEST_PATTERN_TIMEOUT_MS
    /\ \A t \in timers : now + SilenceStep < t.at
    /\ HostNext([Job("advance", NULL, FALSE) EXCEPT !.now = now + SilenceStep])
    /\ DevNext(check_timeout(Elapse(Step, SilenceStep)))

\* what the takeover client sends in one binary message: whole commands and
\* commands cut short
ClientData ==
    {<<CMD_UPDATE_AND_FLUSH, 0, 1, 0, 16, 32, 48>>,
     <<CMD_CLEAR_ALL>>,
     <<CMD_UPDATE_ONLY, 0, 2, 0, 7>>,
     <<CMD_UPDATE_ONLY, 1, 200>>,
     <<CMD_FLUSH>>}

\* ws 'message' event with a binary message; the device reads what is forwarded
MessageLinked ==
    \E c \in Conns, data \in ClientData :
        /\ ws[c].st = "open"
        /\ ws[c].attached
        /\ Linked(onMessage(Job("message", c, TRUE), c, TRUE, data))

\* the peer closes: ws 'close' event; the device reads the tick of the
\* render loop that resume() starts
CloseLinked ==
    \E c \in Conns :
        /\ ws[c].st = "open"
        /\ Linked(onClose([Job("close", c, FALSE) EXCEPT !.ws[c].st = "closed"], c))

\* ------------------------------------------------------------------------
\* Specifications
\* ------------------------------------------------------------------------

\* main() after step 7: coordinates loaded (the file lists every LED of the
\* configuration at one point), animation installed, WebSocket server listening,
\* engine.start() not yet called
Booted(cfg, nconns, scr) ==
    [config |-> cfg, now |-> 0, mainPc |-> "serving", animationFunc |-> Scripts["A.js"].func,
     running |-> FALSE, paused |-> FALSE, wasRunning |-> FALSE, loops |-> 0,
     activeClient |-> NULL, activeClientConnectTime |-> NOTIME,
     idleTimer |-> NULL, timers |-> {},
     ws |-> [c \in 1 .. nconns |-> [st |-> "new", attached |-> FALSE, sent |-> <<>>]],
     wrote |-> <<>>, event |-> [type |-> "boot", conn |-> NULL, isBinary |-> FALSE],
     f9Count |-> 0, script |-> scr,
     animationParams |-> Scripts["A.js"].params, currentAnimation |-> NoAnimation,
     controlFile |-> <<"A.js">>, tasks |-> <<>>, edits |-> 0,
     coordFile |-> [exists |-> FALSE, lines |-> <<>>],
     rawCoordinates |-> [i \in 1 .. cfg.numChannels * cfg.ledsPerChannel |->
                            [id |-> i - 1, x |-> [num |-> 0, den |-> 1],
                             y |-> [num |-> 0, den |-> 1], z |-> [num |-> 0, den |-> 1]]],
     coordinates |-> [id \in 0 .. cfg.numChannels * cfg.ledsPerChannel - 1 |->
                         <<[num |-> 1, den |-> 2], [num |-> 1, den |-> 2], [num |-> 1, den |-> 2]>>],
     calls |-> {},
     statusFile |-> [exists |-> FALSE, content |-> <<>>], statusWrites |-> <<>>,
     lastStatus |-> <<>>, received |-> 0,
     startTime |-> 0, lastT |-> [num |-> 0, den |-> 1000]]

HostIs(s) ==
    /\ config = s.config
    /\ now = s.now
    /\ mainPc = s.mainPc
    /\ animationFunc = s.animationFunc
    /\ running = s.running
    /\ paused = s.paused
    /\ wasRunning = s.wasRunning
    /\ loops = s.loops
    /\ activeClient = s.activeClient
    /\ activeClientConnectTime = s.activeClientConnectTime
    /\ idleTimer = s.idleTimer
    /\ timers = s.timers
    /\ ws = s.ws
    /\ wrote = s.wrote
    /\ event = s.event
    /\ f9Count = s.f9Count
    /\ script = s.script
    /\ animationParams = s.animationParams
    /\ currentAnimation = s.currentAnimation
    /\ controlFile = s.controlFile
    /\ tasks = s.tasks
    /\ edits = s.edits
    /\ coordFile = s.coordFile
    /\ rawCoordinates = s.rawCoordinates
    /\ coordinates = s.coordinates
    /\ calls = s.calls
    /\ statusFile = s.statusFile
    /\ statusWrites = s.statusWrites
    /\ lastStatus = s.lastStatus
    /\ received = s.received
    /\ startTime = s.startTime
    /\ lastT = s.lastT

DevIs(d) ==
    /\ channels = d.channels
    /\ parser = d.parser
    /\ stats = d.stats
    /\ system_mode = d.system_mode
    /\ current_test_pattern = d.current_test_pattern
    /\ frame_counter = d.frame_counter
    /\ dma = d.dma
    /\ rx = d.rx
    /\ hazard = d.hazard
    /\ nrx = d.nrx
    /\ since_serial = d.since_serial
    /\ sensors = d.sensors
    /\ fault_present = d.fault_present
    /\ fault_history = d.fault_history
    /\ fb_channel_idx = d.fb_channel_idx
    /\ sensor_cycle_counter = d.sensor_cycle_counter
    /\ reads = d.reads
    /\ reports = d.reports
    /\ ternary = d.ternary

vars == <<hostVars, devVars>>

\* The host: any order of connections, messages, closes, errors, timers and ticks.
Init ==
    /\ HostIs(Booted([wsEvictionAge |-> 1, wsIdleTimeout |-> 2,
                      numChannels |-> 2, ledsPerChannel |-> 2], MaxConns, <<>>))
    /\ DevIs(DevBoot)

Next ==
    \/ MainStart
    \/ LoopWake
    \/ Connect
    \/ ClientMessage
    \/ ClientClose
    \/ CloseEvent
    \/ SocketError
    \/ IdleFire
    \/ Advance

Spec == Init /\ [][Next]_vars

\* The host with a shutdown signal at any time after engine.start(): the
\* server accepts no connection once it is closing, and nothing runs after
\* process.exit().
NextShutdown ==
    \/ Shutdown
    \/ WssClosed
    \/ ShutdownExit
    \/ (mainPc \in {"serving", "started"} /\ MainStart)
    \/ (mainPc \in {"serving", "started"} /\ Connect)
    \/ (mainPc # "exited" /\ LoopWake)
    \/ (mainPc # "exited" /\ ClientMessage)
    \/ (mainPc # "exited" /\ ClientClose)
    \/ (mainPc # "exited" /\ CloseEvent)
    \/ (mainPc # "exited" /\ SocketError)
    \/ (mainPc # "exited" /\ IdleFire)
    \/ (mainPc # "exited" /\ Advance)

SpecShutdown == Init /\ [][NextShutdown]_vars

\* The engine and the animation switcher: switcher.start() has run (the
\* watcher's initial 'add' event is pending), the control file is rewritten at
\* any time, and no WebSocket client connects.
InitSwitch ==
    /\ HostIs([Booted([wsEvictionAge |-> 1, wsIdleTimeout |-> 2,
                       numChannels |-> 2, ledsPerChannel |-> 2], 0, <<>>)
                  EXCEPT !.tasks = <<[pc |-> "read", name |-> ""]>>])
    /\ DevIs(DevBoot)

NextSwitch ==
    \/ MainStart
    \/ LoopWake
    \/ ControlFileWrite
    \/ HandleFileChange
    \/ SwitchAnimation

SpecSwitch == InitSwitch /\ [][NextSwitch]_vars

\* The engine and the device on one serial line: main() has run with a
\* configuration loadConfig() accepted, no client connects, and the device
\* reads what each tick writes. LEDS_PER_CHANNEL and NUM_CHANNELS are unset,
\* in range, out of range, or no number.
InitLink ==
    \E leds, chans \in {<<>>, <<"0">>, <<"1">>, <<"2">>, <<"8">>, <<"9">>, <<"2", "0", "0">>,
                        <<"2", "0", "1">>, <<"2", ".", "5">>, <<" ", "3">>, <<"-", "1">>, <<"a">>} :
        LET loaded == loadConfig([WS_EVICTION_AGE |-> <<>>, WS_IDLE_TIMEOUT |-> <<>>,
                                  NUM_CHANNELS |-> chans, LEDS_PER_CHANNEL |-> leds])
        IN /\ loaded.ok
           /\ HostIs(Booted(loaded.config, 0, <<>>))
           /\ DevIs(DevBoot)

NextLink ==
    \/ StartLinked
    \/ WakeLinked
    \/ DmaDone

SpecLink == InitLink /\ [][NextLink]_vars

\* The render loop alone: main() has installed an animation (one colour at
\* full or half level, or the faulty one) and loaded a coordinate file that
\* lists every LED, LEDs 0 and 2 only, the even LEDs, or two LEDs more than
\* the configuration has; no client connects.
InitRender ==
    \E cfg \in {[numChannels |-> 1, ledsPerChannel |-> 2], [numChannels |-> 1, ledsPerChannel |-> 3],
                [numChannels |-> 2, ledsPerChannel |-> 7]},
       f \in {"red", "green", "faulty"}, level \in {255, 128}, file \in 1 .. 4 :
        LET n == cfg.numChannels * cfg.ledsPerChannel
            ids == CASE file = 1 -> 0 .. n - 1
                     [] file = 2 -> {0, 2}
                     [] file = 3 -> {id \in 0 .. n - 1 : id % 2 = 0}
                     [] file = 4 -> 0 .. n + 1
            booted == Booted([wsEvictionAge |-> 1, wsIdleTimeout |-> 2,
                              numChannels |-> cfg.numChannels,
                              ledsPerChannel |-> cfg.ledsPerChannel], 0, <<>>)
        IN /\ HostIs([booted EXCEPT
                         !.animationFunc = f, !.animationParams = [level |-> level],
                         !.coordinates = [id \in ids |-> <<[num |-> 1, den |-> 2],
                                                           [num |-> 1, den |-> 2],
                                                           [num |-> 1, den |-> 2]>>]])
           /\ DevIs(DevBoot)

NextRender ==
    \/ MainStart
    \/ LoopWake

SpecRender == InitRender /\ [][NextRender]_vars

\* The calibration pattern (pattern 4) watched on any one LED of the 8 x 200.
InitTernary ==
    \E id \in 0 .. NUM_CHANNELS * TEST_PATTERN_DEFAULT_LEDS - 1 :
        /\ HostIs(Booted([wsEvictionAge |-> 1, wsIdleTimeout |-> 2,
                          numChannels |-> 2, ledsPerChannel |-> 2], 0, <<>>))
        /\ DevIs([activate_test_pattern(DevBoot, 4) EXCEPT !.ternary.led_id = id])

NextTernary == ShowTernaryDigit

SpecTernary == InitTernary /\ [][NextTernary]_vars

\* The sensors and the status report. The device has run for some whole cycles
\* of 40 calls of update_sensors() and `phase` further ones, with or without an
\* INA226, and either no fault was ever seen or one fault is present and
\* reported: temperature 0 or 1 or the bus current above its threshold, or the
\* channel read last but one before tripped. Then readings of every kind
\* arrive, reports are printed and button 0 reboots the device.
InitFault ==
    \E phase \in 0 .. 39, present \in BOOLEAN,
       fault \in {"none", "temp0", "temp1", "current", "trip"} :
        LET c == (phase + 1) % NUM_CHANNELS
        IN /\ fault = "current" => present
           /\ HostIs(Booted([wsEvictionAge |-> 1, wsIdleTimeout |-> 2,
                             numChannels |-> 2, ledsPerChannel |-> 2], 0, <<>>))
           /\ DevIs([DevBoot EXCEPT
                        !.sensors = [temp0 |-> IF fault = "temp0" THEN 601 ELSE 250,
                                     temp1 |-> IF fault = "temp1" THEN 601 ELSE 250,
                                     voltage |-> IF present THEN 50 ELSE 0,
                                     current |-> IF fault = "current" THEN 101
                                                 ELSE IF present THEN 20 ELSE 0,
                                     fb_mask |-> IF fault = "trip" THEN 255 - Pow2(c) ELSE 255,
                                     fb_voltages |-> [k \in Chans |->
                                                         IF fault = "trip" /\ k = c THEN 5 ELSE 33],
                                     ina226_present |-> present],
                        !.channels[c].tripped = (fault = "trip"),
                        !.channels[c].trip_count = IF fault = "trip" THEN 1 ELSE 0,
                        !.fault_present = (fault # "none"),
                        !.fault_history = (fault # "none"),
                        !.fb_channel_idx = phase % NUM_CHANNELS,
                        !.sensor_cycle_counter = phase % 20])

NextFault ==
    \/ UpdateSensors
    \/ PrintStatusReport
    \/ Button0

SpecFault == InitFault /\ [][NextFault]_vars

\* main() at step 2, with a coordinate file that is missing or has up to
\* MaxLines lines: records with the id after the last underscore, decimals,
\* negative values and Infinity, a repeated id, a comment, an empty line, and
\* lines with a missing value, a value or an id that is no number, or no LED_
\* prefix.
InitLoad ==
    \E exists \in BOOLEAN,
       lines \in UNION {[1 .. n -> {
           <<"L", "E", "D", "_", "0", " ", "0", " ", "0", " ", "0">>,
           <<"L", "E", "D", "_", "1", " ", "1", " ", "2", ".", "5", " ", "0">>,
           <<" ", "L", "E", "D", "_", "3", "_", "2", " ", " ", "-", "1", ".", "5", " ", "4", " ", "0", " ">>,
           <<"L", "E", "D", "_", "1", " ", "3", " ", "2", ".", "5", " ", "1">>,
           <<"L", "E", "D", "_", "4", " ", "I", "n", "f", "i", "n", "i", "t", "y", " ", "1", " ", "0">>,
           <<"#", " ", "L", "E", "D", "_", "5", " ", "9", " ", "9", " ", "9">>,
           <<>>,
           <<"L", "E", "D", "_", "5", " ", "9", " ", "9">>,
           <<"L", "E", "D", "_", "5", " ", "9", " ", "x", " ", "9">>,
           <<"L", "E", "D", "_", "x", " ", "9", " ", "9", " ", "9">>,
           <<"l", "e", "d", "_", "5", " ", "9", " ", "9", " ", "9">>}] : n \in 0 .. MaxLines} :
        /\ exists \/ lines = <<>>
        /\ HostIs([Booted([wsEvictionAge |-> 1, wsIdleTimeout |-> 2,
                           numChannels |-> 2, ledsPerChannel |-> 2], 0, <<>>) EXCEPT
                      !.mainPc = "loading",
                      !.coordFile = [exists |-> exists, lines |-> lines],
                      !.rawCoordinates = <<>>,
                      !.coordinates = <<>>])
        /\ DevIs(DevBoot)

NextLoad == LoadCoordinates

SpecLoad == InitLoad /\ [][NextLoad]_vars

\* The status handler listening, at a time t, the status file missing or left
\* by an earlier run.
InitStatus ==
    \E t \in {0, 1234}, left \in BOOLEAN :
        /\ LET s == [Booted([wsEvictionAge |-> 1, wsIdleTimeout |-> 2,
                             numChannels |-> 2, ledsPerChannel |-> 2], 0, <<>>)
                     EXCEPT !.now = t]
               earlier == parseStatusMessage(<<"S", "T", "A", "T", "S", " ", "u", "p", "=", "0">>, 7)
           IN HostIs(IF left
                     THEN [s EXCEPT !.statusFile =
                              [exists |-> TRUE,
                               content |-> writeStatusFile(s, earlier).statusWrites[1].content]]
                     ELSE s)
        /\ DevIs(DevBoot)

NextStatus ==
    \/ SerialMessage
    \/ FileOpened
    \/ FileWritten

SpecStatus == InitStatus /\ [][NextStatus]_vars

\* The render loop with the serial port's events: write callbacks with and
\* without an error, and a disconnect; nothing runs after
\* process.exit().
InitSerial ==
    \E cfg \in {[numChannels |-> 1, ledsPerChannel |-> 2], [numChannels |-> 1, ledsPerChannel |-> 3],
                [numChannels |-> 2, ledsPerChannel |-> 3]},
       f \in {"red", "green", "faulty"}, level \in {255, 128} :
        /\ HostIs([Booted([wsEvictionAge |-> 1, wsIdleTimeout |-> 2,
                           numChannels |-> cfg.numChannels,
                           ledsPerChannel |-> cfg.ledsPerChannel], 0, <<>>) EXCEPT
                      !.animationFunc = f, !.animationParams = [level |-> level]])
        /\ DevIs(DevBoot)

NextSerial ==
    \/ (mainPc # "exited" /\ MainStart)
    \/ (mainPc # "exited" /\ LoopWake)
    \/ WriteDone
    \/ WriteError
    \/ SerialDisconnect

SpecSerial == InitSerial /\ [][NextSerial]_vars

\* A takeover with a silent client: the engine and the device on one serial
\* line, idle timeout 30 s; a client connects while the render loop runs and
\* sends nothing.
InitTakeover ==
    \E cfg \in {[numChannels |-> 1, ledsPerChannel |-> 2], [numChannels |-> 2, ledsPerChannel |-> 2],
                [numChannels |-> 2, ledsPerChannel |-> 3]},
       f \in {"red", "green"}, level \in {255, 128} :
        /\ HostIs([Booted([wsEvictionAge |-> 1, wsIdleTimeout |-> 30,
                           numChannels |-> cfg.numChannels,
                           ledsPerChannel |-> cfg.ledsPerChannel], 1, <<>>) EXCEPT
                      !.animationFunc = f, !.animationParams = [level |-> level]])
        /\ DevIs(DevBoot)

NextTakeover ==
    \/ StartLinked
    \/ ConnectLinked
    \/ SilenceLinked
    \/ UpdateTestPattern
    \/ DmaDone

SpecTakeover == InitTakeover /\ [][NextTakeover]_vars

\* A takeover in progress: engine.start() has run and the device has read its
\* first tick, a client has connected and the device has read the Clear All
\* of pause(), and the render loop stopped by pause() has ended. The client
\* sends messages and closes.
InitFraming ==
    \E cfg \in {[numChannels |-> 1, ledsPerChannel |-> 2], [numChannels |-> 2, ledsPerChannel |-> 2],
                [numChannels |-> 2, ledsPerChannel |-> 3]},
       f \in {"red", "green"}, level \in {255, 128} :
        LET booted == [Booted([wsEvictionAge |-> 1, wsIdleTimeout |-> 30,
                               numChannels |-> cfg.numChannels,
                               ledsPerChannel |-> cfg.ledsPerChannel], 1, <<>>) EXCEPT
                          !.animationFunc = f, !.animationParams = [level |-> level]]
            started == start([booted EXCEPT !.mainPc = "started"])
            taken == handleConnection([started EXCEPT
                                          !.wrote = <<>>, !.ws[1].st = "open",
                                          !.event = [type |-> "connect", conn |-> 1,
                                                     isBinary |-> FALSE]], 1)
            device == parse_uart_data(parse_uart_data(DevBoot, Flatten(started.wrote)),
                                      Flatten(taken.wrote))
        IN /\ HostIs([taken EXCEPT !.loops = 0])
           /\ DevIs([device EXCEPT !.nrx = 0])

NextFraming ==
    \/ MessageLinked
    \/ CloseLinked
    \/ WakeLinked
    \/ DmaDone

SpecFraming == InitFraming /\ [][NextFraming]_vars

\* Scenario S3: eviction age 1 s, idle timeout 30 s, the render loop running,
\* connections at t = 0, 0.5 s and 1.2 s; the clients stay connected.
InitS3 ==
    /\ HostIs([start([Booted([wsEvictionAge |-> 1, wsIdleTimeout |-> 30,
                              numChannels |-> 2, ledsPerChannel |-> 2], 3, <<0, 500, 1200>>)
                      EXCEPT !.mainPc = "started"])
               EXCEPT !.event = [type |-> "start", conn |-> NULL, isBinary |-> FALSE]])
    /\ DevIs(DevBoot)

NextS3 ==
    \/ ScriptConnect
    \/ LoopWake
    \/ ClientMessage
    \/ CloseEvent
    \/ Advance

SpecS3 == InitS3 /\ [][NextS3]_vars

\* The host with an idle timeout of 1 s, so that an idle timer that was
\* restarted by a message still expires before the clock stops.
InitIdle ==
    /\ HostIs(Booted([wsEvictionAge |-> 1, wsIdleTimeout |-> 1,
                      numChannels |-> 2, ledsPerChannel |-> 2], MaxConns, <<>>))
    /\ DevIs(DevBoot)

SpecIdle == InitIdle /\ [][Next]_vars

\* The device: the main loop fed any sequence of reads of the serial port,
\* with timeouts, pattern frames and DMA completions in between.
InitDev ==
    /\ HostIs(Booted([wsEvictionAge |-> 1, wsIdleTimeout |-> 2,
                      numChannels |-> 2, ledsPerChannel |-> 2], MaxConns, <<>>))
    /\ DevIs(DevBoot)

NextDev ==
    \/ ParseUartData
    \/ UpdateTestPattern
    \/ CheckTimeout
    \/ DmaDone

SpecDev == InitDev /\ [][NextDev]_vars

\* The device receiving frames bright enough for the current limiter.
NextLimit ==
    \/ ParseFrame
    \/ DmaDone

SpecLimit == InitDev /\ [][NextLimit]_vars

\* The device receiving whole commands with varying cnt, with pattern frames
\* in between.
NextCurrent ==
    \/ ParseCommand
    \/ UpdateTestPattern
    \/ DmaDone

SpecCurrent == InitDev /\ [][NextCurrent]_vars

\* The device with its clock: between two reads of the serial port the time
\* since the last byte grows in steps of SilenceStep ms.
NextTimeout ==
    \/ ParseUartData
    \/ TimePasses
    \/ UpdateTestPattern
    \/ DmaDone

SpecTimeout == InitDev /\ [][NextTimeout]_vars


\* ------------------------------------------------------------------------
\* Claims about the host
\* ------------------------------------------------------------------------

\* positions of the engine's own writes in w whose command byte is in cmds
EngineCmds(w, cmds) == {i \in 1 .. Len(w) : w[i].src = NULL /\ w[i].data[1] \in cmds}

\* positions of forwarded client writes in w
ClientWrites(w) == {i \in 1 .. Len(w) : w[i].src # NULL}

HasCode(c, code) == \E i \in 1 .. Len(ws[c].sent) : ws[c].sent[i].code = code

\* the last job was a connection attempt that was accepted
AcceptedNow == event.type = "connect" /\ activeClient = event.conn

\* C1: while the engine is paused (from pause() to the matching resume()) the
\* engine writes no Update+Flush and no Update only command, and the pause()
\* that begins the takeover writes exactly one Clear All.
C1_PausedIsDark ==
    [][/\ (paused /\ paused') => EngineCmds(wrote', {CMD_UPDATE_AND_FLUSH, CMD_UPDATE_ONLY}) = {}
       /\ (~paused /\ paused') => Cardinality(EngineCmds(wrote', {CMD_CLEAR_ALL})) = 1]_vars

\* w is one tick: Update only for channels 0 .. numChannels-1 in ascending
\* order, each with cnt = ledsPerChannel (little-endian) and cnt*3 payload
\* bytes, then one Flush, and nothing else
IsTick(w) ==
    /\ Len(w) = config.numChannels + 1
    /\ \A k \in 0 .. config.numChannels - 1 :
          /\ w[k + 1].src = NULL
          /\ Len(w[k + 1].data) = 4 + 3 * config.ledsPerChannel
          /\ w[k + 1].data[1] = CMD_UPDATE_ONLY
          /\ w[k + 1].data[2] = k
          /\ w[k + 1].data[3] + 256 * w[k + 1].data[4] = config.ledsPerChannel
          /\ w[k + 1].data[3] \in 0 .. 255
          /\ \A j \in 5 .. Len(w[k + 1].data) : w[k + 1].data[j] \in 0 .. 255
    /\ w[config.numChannels + 1].src = NULL
    /\ Len(w[config.numChannels + 1].data) = 2
    /\ w[config.numChannels + 1].data[1] = CMD_FLUSH
    /\ w[config.numChannels + 1].data[2] \in 0 .. 255

\* C2: whenever the engine writes an Update or a Flush, the writes of that job
\* are exactly one tick, with no Clear All and no client bytes in between; and
\* every wake-up of a running loop writes one.
C2_TickEmission ==
    /\ EngineCmds(wrote, {CMD_UPDATE_AND_FLUSH, CMD_UPDATE_ONLY, CMD_FLUSH}) # {} => IsTick(wrote)
    /\ (event.type = "wake" /\ running) => IsTick(wrote)

C2_Witness == event.type = "wake" /\ IsTick(wrote)

\* C3: an accepted socket that is still open is the active client (so there is
\* at most one), and bytes are forwarded only for a binary message on the
\* connection that is the active client when the message arrives: never for a
\* rejected, evicted or closed connection, never for a text message.
C3_TakeoverExclusive ==
    /\ [](\A c \in Conns : (ws[c].attached /\ ws[c].st = "open") => activeClient = c)
    /\ [][\A i \in ClientWrites(wrote') :
             LET c == wrote'[i].src
             IN /\ event'.type = "message" /\ event'.conn = c /\ event'.isBinary
                /\ activeClient = c
                /\ ws[c].attached
                /\ ws[c].st # "closed"
                /\ ~HasCode(c, "SERVER_BUSY")
                /\ ~HasCode(c, "EVICTED")]_vars

\* bytes of the active client are forwarded while an evicted client is still around
C3_Witness ==
    /\ ClientWrites(wrote) # {}
    /\ \E d \in Conns : HasCode(d, "EVICTED") /\ d # activeClient /\ ws[d].st = "closing"

\* C8 as stated: every accept, also one by eviction, writes a Clear All before
\* any byte of the accepted client is forwarded.
C8_ClearAllOnEveryAccept ==
    [][AcceptedNow' => /\ EngineCmds(wrote', {CMD_CLEAR_ALL}) # {}
                       /\ ClientWrites(wrote') = {}]_vars

\* C8 amended: an accept while no client is active writes exactly one Clear All
\* (and nothing else) in the accepting job, before any byte of the client is
\* forwarded; an accept by eviction writes nothing, the engine being still
\* paused from the evicted client's takeover.
C8_ClearAllOnFreshAccept ==
    [][AcceptedNow' => IF activeClient = NULL
                       THEN wrote' = <<[src |-> NULL, data |-> <<CMD_CLEAR_ALL>>]>>
                       ELSE wrote' = <<>> /\ paused /\ f9Count' = f9Count]_vars

C8_Witness ==
    /\ AcceptedNow
    /\ wrote = <<>>
    /\ \E d \in Conns : HasCode(d, "EVICTED")

\* C9: the admission decision of handleConnection.
C9_Admission ==
    [][event'.type = "connect" =>
         LET c == event'.conn
             a == activeClient
             ageMs == now - activeClientConnectTime
             E == config.wsEvictionAge * 1000
         IN IF a = NULL
            THEN /\ activeClient' = c
                 /\ activeClientConnectTime' = now
                 /\ ws'[c].st = "open" /\ ws'[c].attached /\ ws'[c].sent = <<>>
            ELSE IF ageMs >= E
            THEN /\ activeClient' = c
                 /\ activeClientConnectTime' = now
                 /\ ws'[c].st = "open" /\ ws'[c].attached /\ ws'[c].sent = <<>>
                 /\ Len(ws'[a].sent) = Len(ws[a].sent) + 1
                 /\ ws'[a].sent[Len(ws'[a].sent)].code = "EVICTED"
                 /\ ws'[a].st \in {"closing", "errored", "closed"}
            ELSE /\ Len(ws'[c].sent) = 1
                 /\ ws'[c].sent[1].code = "SERVER_BUSY"
                 /\ ws'[c].sent[1].delivered
                 /\ ws'[c].sent[1].retryAfter >= 1
                 /\ ws'[c].sent[1].retryAfter * 1000 >= E - ageMs
                 /\ (ws'[c].sent[1].retryAfter - 1) * 1000 < E - ageMs
                 /\ ws'[c].st = "closing" /\ ~ws'[c].attached
                 /\ activeClient' = a
                 /\ activeClientConnectTime' = activeClientConnectTime
                 /\ idleTimer' = idleTimer
                 /\ timers' = timers
                 /\ ws'[a] = ws[a]]_vars

\* a connection has just been rejected while another client stays active
C9_Witness ==
    /\ event.type = "connect"
    /\ HasCode(event.conn, "SERVER_BUSY")
    /\ activeClient \notin {NULL, event.conn}

\* C10: scenario S3. A (1) is accepted at t=0, B (2) is rejected at t=0.5 s with
\* SERVER_BUSY and retryAfter=1, C (3) at t=1.2 s evicts A; the engine writes
\* exactly one Clear All over the whole scenario.
C10_ScenarioS3 ==
    /\ Len(script) <= 2 =>
          /\ ws[1].attached
          /\ f9Count = 1
    /\ Len(script) = 2 => activeClient = 1 /\ ws[1].st = "open" /\ ws[1].sent = <<>>
    /\ Len(script) <= 1 =>
          /\ ws[2].sent = <<[code |-> "SERVER_BUSY", retryAfter |-> 1, delivered |-> TRUE]>>
          /\ ws[2].st \in {"closing", "closed"}
          /\ ~ws[2].attached
    /\ Len(script) = 1 => activeClient = 1 /\ ws[1].st = "open" /\ ws[1].sent = <<>>
    /\ Len(script) = 0 =>
          /\ ws[1].sent = <<[code |-> "EVICTED", retryAfter |-> 0, delivered |-> TRUE]>>
          /\ ws[1].st \in {"closing", "closed"}
          /\ activeClient = 3 /\ ws[3].attached /\ ws[3].st = "open" /\ ws[3].sent = <<>>
          /\ activeClientConnectTime = 1200

C10_Witness == script = <<>> /\ activeClient = 3 /\ ws[1].st = "closed" /\ now > 1200

\* C11: idle timeout. At most one idle timer is pending, it is the one
\* wsServer.idleTimer names, and none is pending while no client is active.
\* A timer is armed only by an accept or by a binary message of the active
\* client, for wsIdleTimeout seconds from then, and every binary message of the
\* active client replaces the pending timer; a text message, or a message of
\* another connection, leaves the timer alone. When the timer expires the
\* active client is sent IDLE_TIMEOUT (it arrives if the socket is still open)
\* and its socket is closed.
C11_IdleTimeout ==
    /\ [](/\ Cardinality(timers) <= 1
          /\ \A t \in timers : t.id = idleTimer
          /\ activeClient = NULL => timers = {})
    /\ [][/\ (event'.type = "message" /\ event'.isBinary /\ event'.conn = activeClient)
               => timers' = {[id |-> idleTimer', at |-> now + config.wsIdleTimeout * 1000]}
          /\ (event'.type = "message" /\ (~event'.isBinary \/ event'.conn # activeClient))
               => timers' = timers /\ idleTimer' = idleTimer
          /\ (timers' \ timers # {})
               => /\ event'.type \in {"connect", "message"}
                  /\ \A t \in timers' \ timers : t.at = now' + config.wsIdleTimeout * 1000
          /\ (event'.type = "idle" /\ activeClient # NULL)
               => LET a == activeClient
                  IN /\ \E t \in timers : t.at <= now /\ timers' = timers \ {t}
                     /\ activeClient' = a
                     /\ Len(ws'[a].sent) = Len(ws[a].sent) + 1
                     /\ ws'[a].sent[Len(ws'[a].sent)].code = "IDLE_TIMEOUT"
                     /\ ws'[a].sent[Len(ws'[a].sent)].delivered = (ws[a].st = "open")
                     /\ ws'[a].st # "open"]_vars

\* C11 witness: the timer expired on an open client later than wsIdleTimeout
\* after its accept, that is, after a binary message had restarted it.
C11_Witness ==
    /\ event.type = "idle"
    /\ activeClient # NULL
    /\ ws[activeClient].st = "closing"
    /\ ws[activeClient].sent = <<[code |-> "IDLE_TIMEOUT", retryAfter |-> 0, delivered |-> TRUE]>>
    /\ now > activeClientConnectTime + config.wsIdleTimeout * 1000

\* the engine fields and what the engine wrote in the last job
Engine == <<running, paused, wasRunning, loops, f9Count>>

\* C12: resume on close. A 'close' or 'error' event of the socket that is the
\* active client (its peer closed, the socket failed, or the idle timeout
\* closed it) ends the takeover: no client is active, no idle timer is pending,
\* the engine is no longer paused and, if the render loop was running when the
\* takeover began, the loop runs again and has written a tick. A 'close' or
\* 'error' event of any other socket (a rejected or evicted connection, or the
\* 'close' that follows the 'error' of the same socket) calls no resume():
\* the engine, the active client and its idle timer stay as they are.
C12_ResumeOnClose ==
    [][event'.type \in {"close", "error"} =>
         IF event'.conn = activeClient
         THEN /\ activeClient' = NULL
              /\ idleTimer' = NULL /\ timers' = {}
              /\ paused /\ ~paused'
              /\ wasRunning => /\ running' /\ loops' > 0
                               /\ IsTick(wrote')
              /\ ~wasRunning => running' = running /\ wrote' = <<>>
         ELSE /\ Engine' = Engine
              /\ wrote' = <<>>
              /\ activeClient' = activeClient
              /\ activeClientConnectTime' = activeClientConnectTime
              /\ idleTimer' = idleTimer /\ timers' = timers]_vars

\* C12 witness: the socket of the active client failed during a takeover that
\* began while the loop was running; the 'error' handler resumed the engine
\* and the 'close' of the same socket is still to come.
C12_Witness ==
    /\ event.type = "error"
    /\ ws[event.conn].st = "errored"
    /\ activeClient = NULL
    /\ running /\ ~paused /\ wasRunning
    /\ IsTick(wrote)

\* C13: shutdown ordering as the specification states it. The signal stops
\* the engine and sends SHUTDOWN to an active client, whose socket is closed;
\* then exactly one Clear All is written; and from that Clear All until the
\* process exits the host writes no Update and no Flush.
C13_ShutdownOrdering ==
    [][/\ event'.type = "signal" =>
             /\ ~running'
             /\ activeClient # NULL =>
                   /\ ws'[activeClient].sent # <<>>
                   /\ ws'[activeClient].sent[Len(ws'[activeClient].sent)].code = "SHUTDOWN"
                   /\ ws'[activeClient].st # "open"
       /\ event'.type = "wssClosed" => wrote' = <<[src |-> NULL, data |-> <<CMD_CLEAR_ALL>>]>>
       /\ mainPc \in {"clearing", "exited"} =>
             EngineCmds(wrote', {CMD_UPDATE_AND_FLUSH, CMD_UPDATE_ONLY, CMD_FLUSH}) = {}]_vars

\* the engine's Update writes in w carry colour rgb in every LED
AllLeds(w, rgb) ==
    \A i \in EngineCmds(w, {CMD_UPDATE_AND_FLUSH, CMD_UPDATE_ONLY}) :
        \A j \in 5 .. Len(w[i].data) : w[i].data[j] = rgb[((j - 5) % 3) + 1]

\* C14: a tick evaluates every LED with one animation function and one
\* parameter set, those installed when the tick starts (so an animation the
\* switcher installed is used by the first tick that starts afterwards);
\* the installed pair only changes in a switcher step, which writes nothing,
\* and the pair is always that of one script, never a mix of two.
C14_HotSwapAtomic ==
    /\ [](\E n \in DOMAIN Scripts :
             /\ animationFunc = Scripts[n].func
             /\ animationParams = Scripts[n].params
             /\ currentAnimation # NoAnimation => currentAnimation = n)
    /\ [][/\ EngineCmds(wrote', {CMD_UPDATE_AND_FLUSH, CMD_UPDATE_ONLY}) # {}
             => /\ AllLeds(wrote', AnimColor(animationFunc, animationParams))
                /\ animationFunc' = animationFunc
                /\ animationParams' = animationParams
          /\ <<animationFunc, animationParams>>' # <<animationFunc, animationParams>>
             => /\ event'.type = "loaded"
                /\ wrote' = <<>>
                /\ \E k \in DOMAIN tasks :
                      /\ tasks[k].pc = "load"
                      /\ animationFunc' = loadAnimation(tasks[k].name).func
                      /\ animationParams' = loadAnimation(tasks[k].name).params]_vars

\* a tick in green at half level, right after the switcher installed B.js
\* while the loop was running
C14_Witness ==
    /\ event.type = "wake"
    /\ running
    /\ currentAnimation = "B.js"
    /\ IsTick(wrote)
    /\ AllLeds(wrote, <<0, 128, 0>>)
    /\ tasks # <<>>

\* the calls of switchAnimation() in progress in q
Loads(q) == {k \in DOMAIN q : q[k].pc = "load"}

\* C15: a load that fails changes neither the installed function, nor the
\* parameters, nor the switcher's current-animation name, so the name of a
\* file that does not load is never the current one and every later read of
\* it attempts the load again; a control file that is empty or holds only
\* white space starts no load and changes nothing.
C15_KeepCurrent ==
    /\ [](currentAnimation \in DOMAIN Scripts \cup {NoAnimation})
    /\ [][/\ event'.type = "loadFailed"
             => /\ animationFunc' = animationFunc
                /\ animationParams' = animationParams
                /\ currentAnimation' = currentAnimation
                /\ wrote' = <<>>
          /\ (event'.type = "fileRead" /\ Trim(controlFile) = "")
             => /\ Cardinality(Loads(tasks')) = Cardinality(Loads(tasks))
                /\ Len(tasks') = Len(tasks) - 1
                /\ animationFunc' = animationFunc
                /\ animationParams' = animationParams
                /\ currentAnimation' = currentAnimation
          /\ (event'.type = "fileRead" /\ Trim(controlFile) \notin DOMAIN Scripts \cup {""})
             => /\ Cardinality(Loads(tasks')) = Cardinality(Loads(tasks)) + 1
                /\ \E k \in Loads(tasks') : tasks'[k].name = Trim(controlFile)]_vars

\* bad.js has just failed to load for the second time while A.js stays
\* installed
C15_Witness ==
    /\ event.type = "loadFailed"
    /\ currentAnimation = "A.js"
    /\ animationFunc = Scripts["A.js"].func
    /\ animationParams = Scripts["A.js"].params
    /\ controlFile = <<"bad.js">>
    /\ edits = 2
    /\ tasks = <<>>

\* C33: single render loop. At most one while-loop of start() is live at any
\* time: after any sequence of start(), pause(), resume() and stop() calls,
\* also when resume() comes while the loop stopped by pause() still waits for
\* its next frame time, the engine never runs with a second loop waiting for
\* its frame timer, so every frame interval gives one tick at most.
C33_SingleRenderLoop == running => loops <= 1

\* ------------------------------------------------------------------------
\* Claims about the device
\* ------------------------------------------------------------------------

\* the step is one call of parse_uart_data() that found `bytes` on the port
Received(bytes) == nrx' = nrx + 1 /\ rx'.bytes = bytes

\* the five fields of a channel that hold its frame
Frame(ch) == <<ch.buffer_a, ch.buffer_b, ch.active_buffer, ch.output_buffer, ch.led_count>>

\* C4: double-buffer safety. In every reachable device state and for every
\* channel, active_buffer and output_buffer are the two distinct arrays of the
\* channel; a transfer in progress reads the output buffer and is recorded in
\* dma_in_progress; and no swap was made while a transfer of the channel was
\* running, nor did a parser store, a limiter write, the Clear All memset or a
\* test-pattern write go to a buffer that a running transfer was reading.
C4_DoubleBufferSafety ==
    /\ \A c \in Chans :
          /\ {channels[c].active_buffer, channels[c].output_buffer} = {"a", "b"}
          /\ dma[c].busy => /\ dma[c].src = channels[c].output_buffer
                            /\ channels[c].dma_in_progress
    /\ hazard = {}

\* C4 witness: Clear All started a transfer on every channel and, with those
\* transfers still running, Update and flush stored LED 0 of channel 0 and
\* swapped its buffers again.
C4_Witness ==
    /\ rx.bytes = <<CMD_UPDATE_AND_FLUSH, 0, 1, 0, 16, 32, 48>>
    /\ stats.flushes = NUM_CHANNELS + 1
    /\ dma[0].busy /\ dma[1].busy
    /\ channels[0].led_count = 1
    /\ Word(Buffer(channels[0], channels[0].output_buffer), 0) = rgb_to_grb(16, 32, 48)

\* C5: scenario S5 as the specification states it. Received in
\* STATE_WAIT_COMMAND, FE 09 01 00 FF 00 00 raises the error count by exactly
\* one; FF 00 01 00 10 20 30 received next leaves the parser in
\* STATE_WAIT_COMMAND with LED 0 of channel 0 set to the gamma-corrected
\* (0x10, 0x20, 0x30) in the buffer handed to the DMA, and one more flush counted.
C5_ScenarioS5 ==
    [][/\ (Received(S5Invalid) /\ rx'.from = "STATE_WAIT_COMMAND")
            => stats'.errors = stats.errors + 1
       /\ (rx.bytes = S5Invalid /\ rx.from = "STATE_WAIT_COMMAND" /\ Received(S5Valid))
            => /\ parser'.state = "STATE_WAIT_COMMAND"
               /\ Word(Buffer(channels'[0], channels'[0].output_buffer), 0) = rgb_to_grb(16, 32, 48)
               /\ dma'[0].busy
               /\ stats'.flushes = stats.flushes + 1]_vars

\* C6: header validation. An Update command received in STATE_WAIT_COMMAND whose
\* channel is 8 or more, or whose count is 0 or more than 200, raises the error
\* count by one and leaves the parser in STATE_WAIT_COMMAND, and no channel's
\* buffers, buffer roles or led_count differ from what they were before it.
C6_HeaderValidation ==
    [][\A bytes \in InvalidHeaders :
          (Received(bytes) /\ rx'.from = "STATE_WAIT_COMMAND")
            => /\ stats'.errors = stats.errors + 1
               /\ parser'.state = "STATE_WAIT_COMMAND"
               /\ \A c \in Chans : Frame(channels'[c]) = Frame(channels[c])]_vars

\* C6 witness: a count of 201 for channel 0 was rejected while channel 0 held
\* the one-LED frame of an earlier command.
C6_Witness ==
    /\ rx.bytes = <<CMD_UPDATE_AND_FLUSH, 0, 201, 0>>
    /\ rx.from = "STATE_WAIT_COMMAND"
    /\ stats.errors = 1
    /\ parser.state = "STATE_WAIT_COMMAND"
    /\ channels[0].led_count = 1
    /\ Word(Buffer(channels[0], channels[0].output_buffer), 0) = rgb_to_grb(16, 32, 48)

\* C7: parser liveness as the specification states it. Whatever state the parser
\* is in, the bytes of one complete valid command leave it in STATE_WAIT_COMMAND.
C7_ParserLiveness ==
    [][\A bytes \in ValidCommands :
          Received(bytes) => parser'.state = "STATE_WAIT_COMMAND"]_vars

\* C16: in normal mode the device enters pattern mode with pattern 0 once
\* more than the timeout has passed since the last valid command; a read that
\* holds no valid command (an unknown command byte, an Update header rejected
\* for its channel or its count) does not restart the timeout.
C16_TimeoutEntry ==
    /\ [](system_mode = "MODE_NORMAL" => since_serial <= TEST_PATTERN_TIMEOUT_MS)
    /\ [][/\ (system_mode = "MODE_NORMAL" /\ system_mode' = "MODE_TEST_PATTERN" /\ nrx' = nrx)
             => /\ current_test_pattern' = 0
                /\ since_serial' > TEST_PATTERN_TIMEOUT_MS
          /\ \A bytes \in UnknownCommands \cup InvalidHeaders :
                (parser.state = "STATE_WAIT_COMMAND" /\ Received(bytes))
                => since_serial' = since_serial]_vars

\* the complete Update commands, and the Update commands cut short after a
\* valid header
ValidUpdates == {b \in ValidCommands : b[1] \in {CMD_UPDATE_AND_FLUSH, CMD_UPDATE_ONLY}}

ValidHeaders == {b \in PartialCommands : Len(b) >= 4}

\* C17: in pattern mode, with the parser in STATE_WAIT_COMMAND, a valid Update
\* command puts the device in normal mode as soon as its header is read, before
\* any of its pixels is stored; when the command is complete the parser is in
\* STATE_WAIT_COMMAND, the pixel it carries is in the channel's frame, no other
\* channel's frame has changed, and from then on update_test_pattern() writes
\* nothing.
C17_PatternExit ==
    /\ [](system_mode = "MODE_NORMAL" => update_test_pattern(Dev) = Dev)
    /\ [][/\ \A bytes \in ValidHeaders :
                (system_mode = "MODE_TEST_PATTERN" /\ parser.state = "STATE_WAIT_COMMAND"
                    /\ Received(bytes))
                => /\ system_mode' = "MODE_NORMAL"
                   /\ parser'.state = "STATE_READ_RGB_DATA"
                   /\ parser'.current_led_index = 0
                   /\ \A c \in Chans :
                         /\ channels'[c].buffer_a = channels[c].buffer_a
                         /\ channels'[c].buffer_b = channels[c].buffer_b
          /\ \A bytes \in ValidUpdates :
                (system_mode = "MODE_TEST_PATTERN" /\ parser.state = "STATE_WAIT_COMMAND"
                    /\ Received(bytes))
                => /\ system_mode' = "MODE_NORMAL"
                   /\ parser'.state = "STATE_WAIT_COMMAND"
                   /\ frame_counter' = frame_counter
                   /\ LET ch == channels'[bytes[2]]
                          shown == IF bytes[1] = CMD_UPDATE_AND_FLUSH
                                   THEN ch.output_buffer ELSE ch.active_buffer
                      IN /\ ch.led_count = 1
                         /\ Word(Buffer(ch, shown), 0) = rgb_to_grb(bytes[5], bytes[6], bytes[7])
                   /\ \A c \in Chans \ {bytes[2]} : Frame(channels'[c]) = Frame(channels[c])]_vars

\* the only bytes ever read are one Update and flush, received after the
\* timeout had started the test pattern and one pattern frame was shown
C17_Witness ==
    /\ nrx = 1
    /\ frame_counter = 1
    /\ rx.bytes = <<CMD_UPDATE_AND_FLUSH, 0, 1, 0, 16, 32, 48>>
    /\ system_mode = "MODE_NORMAL"
    /\ parser.state = "STATE_WAIT_COMMAND"
    /\ channels[0].led_count = 1
    /\ channels[1].led_count = TEST_PATTERN_DEFAULT_LEDS

\* the colour word an Update command (bytes) carries for LED i, as stored
FramePixel(bytes, i) == rgb_to_grb(bytes[5 + 3 * i], bytes[6 + 3 * i], bytes[7 + 3 * i])

\* the number of LEDs of an Update command
FrameCount(bytes) == bytes[3] + 256 * bytes[4]

\* sum of R+G+B over the LEDs an Update command carries, as stored
FrameTotal(bytes) ==
    BagCardinality([i \in {j \in 0 .. FrameCount(bytes) - 1 : FramePixel(bytes, j) # 0} |->
                       calculate_brightness_units(FramePixel(bytes, i))])

\* the buffer of channel ch that holds the frame of the Update command just
\* completed: the output buffer after Update and flush, else the active buffer
Shown(ch, bytes) ==
    Buffer(ch, IF bytes[1] = CMD_UPDATE_AND_FLUSH THEN ch.output_buffer ELSE ch.active_buffer)

\* C18: apply_current_limiting on a channel whose active buffer sums to the
\* threshold or less changes nothing, whatever the channel; in particular a
\* frame received with such a sum is kept pixel for pixel and the channel's
\* current_limit_events stays as it was.
C18_LimiterNoOp ==
    /\ [](\A c \in Chans :
             TotalBrightness(Buffer(channels[c], channels[c].active_buffer),
                             channels[c].led_count) <= CURRENT_LIMIT_THRESHOLD
             => apply_current_limiting(Dev, c) = Dev)
    /\ [][\A bytes \in BrightFrames :
             (parser.state = "STATE_WAIT_COMMAND" /\ Received(bytes)
                 /\ FrameTotal(bytes) <= CURRENT_LIMIT_THRESHOLD)
             => /\ \A i \in 0 .. FrameCount(bytes) - 1 :
                      Word(Shown(channels'[bytes[2]], bytes), i) = FramePixel(bytes, i)
                /\ channels'[bytes[2]].current_limit_events
                     = channels[bytes[2]].current_limit_events]_vars

\* a frame of 40 LEDs whose sum is exactly the threshold has been received
\* and flushed unchanged
C18_Witness ==
    /\ nrx = 1
    /\ rx.bytes = WhiteThen(CMD_UPDATE_AND_FLUSH, 0, 39, <<189, 147, 0>>)
    /\ FrameTotal(rx.bytes) = CURRENT_LIMIT_THRESHOLD
    /\ TotalBrightness(Buffer(channels[0], channels[0].output_buffer), 40) = CURRENT_LIMIT_THRESHOLD
    /\ Word(Buffer(channels[0], channels[0].output_buffer), 39) = 55 * 65536 + 110 * 256
    /\ channels[0].current_limit_events = 0

\* c * threshold / sum, rounded to nearest
RoundedScale(c, total) == (2 * c * CURRENT_LIMIT_THRESHOLD + total) \div (2 * total)

\* C19: when the frame of a completed Update sums to more than the threshold,
\* every R, G and B of every LED of the channel is c * threshold / sum rounded
\* to nearest, in the buffer handed to the DMA when the command flushes (the
\* scaling comes before the swap), and current_limit_events is one more.
C19_LimiterScaling ==
    [][\A bytes \in BrightFrames :
          (parser.state = "STATE_WAIT_COMMAND" /\ Received(bytes)
              /\ FrameTotal(bytes) > CURRENT_LIMIT_THRESHOLD)
          => /\ \A i \in 0 .. FrameCount(bytes) - 1 :
                   LET p == FramePixel(bytes, i)
                       q == Word(Shown(channels'[bytes[2]], bytes), i)
                   IN /\ PixelR(q) = RoundedScale(PixelR(p), FrameTotal(bytes))
                      /\ PixelG(q) = RoundedScale(PixelG(p), FrameTotal(bytes))
                      /\ PixelB(q) = RoundedScale(PixelB(p), FrameTotal(bytes))
             /\ channels'[bytes[2]].current_limit_events
                  = channels[bytes[2]].current_limit_events + 1]_vars

FlushCommands == {b \in ValidCommands : b[1] = CMD_FLUSH}

\* bit k of mask
Bit(mask, k) == (mask \div Pow2(k)) % 2 = 1

\* channel k as a flush leaves it: the buffers have changed roles, their
\* contents and led_count are as before, and the DMA hardware is reading the
\* buffer that was active
Swapped(k) ==
    /\ channels'[k].active_buffer = channels[k].output_buffer
    /\ channels'[k].output_buffer = channels[k].active_buffer
    /\ channels'[k].buffer_a = channels[k].buffer_a
    /\ channels'[k].buffer_b = channels[k].buffer_b
    /\ channels'[k].led_count = channels[k].led_count
    /\ channels'[k].dma_in_progress
    /\ dma'[k] = [busy |-> TRUE, src |-> channels[k].active_buffer]

Untouched(k) == channels'[k] = channels[k] /\ dma'[k] = dma[k]

\* C20 as stated: a Flush command swaps the buffers of every channel whose bit
\* is set in the mask, leaves every channel whose bit is clear as it was
\* (buffers, led_count, DMA), and returns the parser to STATE_WAIT_COMMAND.
C20_FlushMaskAsStated ==
    [][\A bytes \in FlushCommands :
          (parser.state = "STATE_WAIT_COMMAND" /\ Received(bytes))
          => /\ parser'.state = "STATE_WAIT_COMMAND"
             /\ \A k \in Chans : IF Bit(bytes[2], k) THEN Swapped(k) ELSE Untouched(k)]_vars

\* C20, amended: a Flush command swaps the buffers of every channel whose bit
\* is set in the mask and whose led_count is not 0, leaves every other channel
\* as it was (buffers, led_count, DMA), and returns the parser to
\* STATE_WAIT_COMMAND.
C20_FlushMask ==
    [][\A bytes \in FlushCommands :
          (parser.state = "STATE_WAIT_COMMAND" /\ Received(bytes))
          => /\ parser'.state = "STATE_WAIT_COMMAND"
             /\ stats'.flushes = stats.flushes
                  + Cardinality({k \in Chans : Bit(bytes[2], k) /\ channels[k].led_count # 0})
             /\ \A k \in Chans :
                   IF Bit(bytes[2], k) /\ channels[k].led_count # 0
                   THEN Swapped(k) ELSE Untouched(k)]_vars

\* Flush with mask 3 after an Update only for channel 1: channel 1 has been
\* swapped and shows its pixel, channel 0 (no frame yet) has not
C20_Witness ==
    /\ nrx = 2
    /\ rx.bytes = <<CMD_FLUSH, 3>>
    /\ rx.from = "STATE_WAIT_COMMAND"
    /\ parser.state = "STATE_WAIT_COMMAND"
    /\ channels[1].led_count = 1
    /\ channels[1].active_buffer = "b"
    /\ Word(Buffer(channels[1], channels[1].output_buffer), 0) = rgb_to_grb(255, 255, 255)
    /\ dma[1] = [busy |-> TRUE, src |-> "a"]
    /\ channels[0].led_count = 0
    /\ channels[0].active_buffer = "a"
    /\ stats.flushes = 1

\* C21: with any configuration loadConfig() accepts, every Update the engine
\* writes names a channel below 8 and a count from 1 to 200, low byte first,
\* followed by count * 3 bytes; a device whose parser is in STATE_WAIT_COMMAND
\* when it reads a tick counts no error, stores every pixel of the tick, takes
\* the count as led_count of each channel of the tick, and has its parser in
\* STATE_WAIT_COMMAND again after the Flush.
C21_HostFramesValid ==
    /\ [](config.numChannels \in 1 .. NUM_CHANNELS
             /\ config.ledsPerChannel \in 1 .. MAX_LEDS_PER_CHANNEL)
    /\ [][EngineCmds(wrote', {CMD_UPDATE_AND_FLUSH, CMD_UPDATE_ONLY}) # {}
          => /\ \A i \in EngineCmds(wrote', {CMD_UPDATE_AND_FLUSH, CMD_UPDATE_ONLY}) :
                   LET data == wrote'[i].data
                   IN /\ data[2] \in 0 .. NUM_CHANNELS - 1
                      /\ data[3] \in 0 .. 255
                      /\ data[4] \in 0 .. 255
                      /\ data[3] + 256 * data[4] \in 1 .. MAX_LEDS_PER_CHANNEL
                      /\ Len(data) = 4 + 3 * (data[3] + 256 * data[4])
             /\ (parser.state = "STATE_WAIT_COMMAND" /\ rx'.bytes = Flatten(wrote'))
                => /\ stats'.errors = stats.errors
                   /\ parser'.state = "STATE_WAIT_COMMAND"
                   /\ stats'.pixels = stats.pixels + config.numChannels * config.ledsPerChannel
                   /\ stats'.commands = stats.commands + config.numChannels + 1
                   /\ stats'.flushes = stats.flushes + config.numChannels
                   /\ since_serial' = 0
                   /\ \A c \in 0 .. config.numChannels - 1 :
                         channels'[c].led_count = config.ledsPerChannel]_vars

\* the largest configuration: the device has read two ticks of 8 channels of
\* 200 LEDs without an error
C21_Witness ==
    /\ config.numChannels = 8
    /\ config.ledsPerChannel = 200
    /\ event.type = "wake"
    /\ rx.bytes = Flatten(wrote)
    /\ Len(rx.bytes) = 8 * 604 + 2
    /\ nrx = 2
    /\ stats.errors = 0
    /\ stats.pixels = 3200
    /\ parser.state = "STATE_WAIT_COMMAND"
    /\ channels[7].led_count = 200


\* ------------------------------------------------------------------------
\* C22. Scenario S1: with 1 channel of 2 LEDs, both with coordinates, and an
\* animation that returns (1, 0, 0) for every LED, the bytes written to serial
\* in one tick are FE 00 02 00 FF 00 00 FF 00 00 FD 01.
\* ------------------------------------------------------------------------

\* the configuration and animation of scenario S1, and a tick has just run
ScenarioS1 ==
    /\ config.numChannels = 1
    /\ config.ledsPerChannel = 2
    /\ {0, 1} \subseteq DOMAIN coordinates
    /\ animationFunc = "red"
    /\ animationParams.level = 255
    /\ running
    /\ event.type \in {"start", "wake"}

C22_ScenarioS1AsStated ==
    ScenarioS1 => Flatten(wrote) = <<254, 0, 2, 0, 255, 0, 0, 255, 0, 0, 253, 1>>

\* C22, amended. The tick of scenario S1 writes FE 00 02 00 FF 00 00 FF 00 00
\* FD FF: the Flush carries the mask 0xFF whatever the number of channels.
C22_ScenarioS1 ==
    ScenarioS1 => Flatten(wrote) = <<254, 0, 2, 0, 255, 0, 0, 255, 0, 0, 253, 255>>

C22_Witness == ScenarioS1 /\ event.type = "wake" /\ Len(wrote) = 2


\* ------------------------------------------------------------------------
\* C23. In every tick, an LED id in [0, N) that has no coordinate has the
\* frame bytes 0, 0, 0 and the animation function is not called for it; with
\* 1 channel of 3 LEDs, coordinates for ids 0 and 2 only and an animation
\* returning (0, 1, 0), the LEDs are (0,255,0), (0,0,0), (0,255,0).
\* ------------------------------------------------------------------------

\* a tick has just run
Ticked == running /\ event.type \in {"start", "wake"}

\* the three bytes of LED id in the Update commands of a tick
LedBytes(w, id) ==
    LET data == w[(id \div config.ledsPerChannel) + 1].data
        i == id % config.ledsPerChannel
    IN <<data[5 + 3 * i], data[6 + 3 * i], data[7 + 3 * i]>>

C23_NoCoordinateBlack ==
    Ticked =>
        /\ \A id \in 0 .. config.numChannels * config.ledsPerChannel - 1 :
               id \notin DOMAIN coordinates =>
                   LedBytes(wrote, id) = <<0, 0, 0>> /\ id \notin calls
        /\ (/\ config.numChannels = 1
            /\ config.ledsPerChannel = 3
            /\ DOMAIN coordinates = {0, 2}
            /\ animationFunc = "green"
            /\ animationParams.level = 255)
           => /\ LedBytes(wrote, 0) = <<0, 255, 0>>
              /\ LedBytes(wrote, 1) = <<0, 0, 0>>
              /\ LedBytes(wrote, 2) = <<0, 255, 0>>

C23_Witness ==
    /\ Ticked
    /\ event.type = "wake"
    /\ config.numChannels = 1
    /\ config.ledsPerChannel = 3
    /\ DOMAIN coordinates = {0, 2}
    /\ animationFunc = "green"
    /\ animationParams.level = 255
    /\ calls = {0, 2}
    /\ LedBytes(wrote, 1) = <<0, 0, 0>>
    /\ LedBytes(wrote, 2) = <<0, 255, 0>>


\* ------------------------------------------------------------------------
\* C24. If for some LED the animation function raises an error, returns
\* something that is not a 3-component sequence, or returns a sequence with a
\* non-finite component (NaN, +Infinity, -Infinity), the three frame bytes of
\* that LED are 0 in that tick, the other LEDs are rendered normally and the
\* tick still emits its Updates and its Flush.
\* ------------------------------------------------------------------------

\* the call for LED id is a fault
Fault(id) ==
    LET ret == animationFunc_call(animationFunc, animationParams, id)
    IN \/ ret.thrown
       \/ ~ret.isArray
       \/ Len(ret.result) # 3
       \/ \E k \in 1 .. 3 : ret.result[k].den = 0

C24_FaultBlack ==
    Ticked =>
        /\ IsTick(wrote)
        /\ \A id \in (0 .. config.numChannels * config.ledsPerChannel - 1) \cap DOMAIN coordinates :
               IF Fault(id)
               THEN LedBytes(wrote, id) = <<0, 0, 0>>
               ELSE LET ret == animationFunc_call(animationFunc, animationParams, id)
                    IN LedBytes(wrote, id) = [k \in 1 .. 3 |-> ToUint8Clamp(ret.result[k])]


\* ------------------------------------------------------------------------
\* C25. Ternary uniqueness: for any two distinct global LED ids in [0, 1600)
\* the 9-digit sequences get_ternary_digit(id, k), k = 0 .. 8, of
\* n = id * 9 + (7 - (id * 9 mod 7)) differ in at least one digit.
\* ------------------------------------------------------------------------

\* the number the statement encodes, digit k (0 = least significant)
StatedDigit(id, k) == ((id * 9 + (7 - ((id * 9) % 7))) \div (3 ^ k)) % 3

\* the sequences of all ids
TernaryCodes ==
    Tabulated([id \in 0 .. NUM_CHANNELS * TEST_PATTERN_DEFAULT_LEDS - 1 |->
                  [k \in 1 .. TERNARY_NUM_DIGITS |-> get_ternary_digit(id, k - 1)]])

C25_TernaryUnique ==
    Len(ternary.digits) = TERNARY_NUM_DIGITS =>
        /\ \A k \in 1 .. TERNARY_NUM_DIGITS :
               ternary.digits[k] = StatedDigit(ternary.led_id, k - 1)
        /\ \A other \in DOMAIN TernaryCodes :
               other # ternary.led_id => TernaryCodes[other] # ternary.digits

C25_Witness ==
    /\ ternary.led_id = 1599
    /\ ternary.digits = <<1, 0, 0, 2, 0, 2, 1, 0, 2>>


\* ------------------------------------------------------------------------
\* C26. Fault latch: at every status report fault_present is true exactly when
\* a temperature sensor exceeds the fault temperature, the bus current exceeds
\* the fault current, or some channel is tripped; fault_present implies
\* fault_history in every state after a report; and fault_history, once true,
\* stays true until the device reboots.
\* ------------------------------------------------------------------------

\* the fault condition of the statement
FaultCondition ==
    \/ sensors.temp0 > FAULT_TEMP_THRESHOLD
    \/ sensors.temp1 > FAULT_TEMP_THRESHOLD
    \/ sensors.current > FAULT_CURRENT_THRESHOLD
    \/ \E c \in Chans : channels[c].tripped

C26_FaultLatch ==
    /\ [](fault_present => fault_history)
    /\ [][/\ reports' = reports + 1 => (fault_present' <=> FaultCondition')
          /\ (fault_history /\ ~fault_history') =>
                 (reads' = reads /\ reports' = reports /\ fb_channel_idx' = 0
                  /\ sensors' = [DevBoot.sensors EXCEPT !.ina226_present = sensors.ina226_present])
         ]_vars

C26_Witness ==
    /\ reports = 2
    /\ ~fault_present
    /\ fault_history
    /\ \A c \in Chans : ~channels[c].tripped
    /\ \E c \in Chans : channels[c].trip_count = 1


\* ------------------------------------------------------------------------
\* C27. Coordinate normalization: after load(), for every id that has a
\* coordinate each component of getCoordinate(id) lies in [0, 1]; on an axis
\* whose raw values are all equal every component equals exactly 0.5; on every
\* other axis the record with the minimum raw value maps to 0 and the one with
\* the maximum maps to 1.
\* ------------------------------------------------------------------------

\* load() has just returned
Loaded == event.type = "load" /\ mainPc = "connecting"

\* a <= b for raw values
RawLeq(a, b) == IF a.den = 0 /\ b.den = 0 THEN a.num <= b.num
                ELSE a.num * b.den <= b.num * a.den

\* the normalized value of the record i on the axis k, if the record is the
\* last one of its id
Stored(i, k) == coordinates[rawCoordinates[i].id][k]

C27_Normalization ==
    Loaded =>
        /\ \A id \in DOMAIN coordinates : \A k \in 1 .. 3 :
               /\ coordinates[id][k].den > 0
               /\ 0 <= coordinates[id][k].num
               /\ coordinates[id][k].num <= coordinates[id][k].den
        /\ \A k \in 1 .. 3 :
               LET axis == <<"x", "y", "z">>[k]
                   Last(i) == \A j \in DOMAIN rawCoordinates :
                                  rawCoordinates[j].id = rawCoordinates[i].id => j <= i
                   Lowest(i) == \A j \in DOMAIN rawCoordinates :
                                    RawLeq(rawCoordinates[i][axis], rawCoordinates[j][axis])
                   Highest(i) == \A j \in DOMAIN rawCoordinates :
                                     RawLeq(rawCoordinates[j][axis], rawCoordinates[i][axis])
               IN IF \A i \in DOMAIN rawCoordinates : Lowest(i)
                  THEN \A id \in DOMAIN coordinates :
                           2 * coordinates[id][k].num = coordinates[id][k].den
                  ELSE \A i \in DOMAIN rawCoordinates :
                           /\ (Last(i) /\ Lowest(i)) =>
                                  Stored(i, k).num = 0 /\ Stored(i, k).den > 0
                           /\ (Last(i) /\ Highest(i)) =>
                                  Stored(i, k).num = Stored(i, k).den /\ Stored(i, k).den > 0


\* ------------------------------------------------------------------------
\* C28. Coordinate load failure: loading the coordinate file fails (fatal at
\* startup, no coordinate store is built) when the file is missing, when it
\* yields zero valid records, or when a data line carries an unparseable LED
\* id.
\* ------------------------------------------------------------------------

\* main() has been through load()
LoadDone == event.type = "load"

\* the load failed: process.exit(1), no coordinate store
LoadFailed == mainPc = "failed" /\ coordinates = <<>> /\ rawCoordinates = <<>>

\* the line is a data line (LED_ first, four fields or more) whose LED id,
\* the text after the last underscore of the first field, is no number
UnparseableId(line) ==
    LET parts == SplitWhitespace(TrimEnd(TrimStart(line)))
        Id(part) == SubSeq(part, (CHOOSE i \in 1 .. Len(part) :
                                      part[i] = "_" /\ \A j \in i + 1 .. Len(part) : part[j] # "_") + 1,
                           Len(part))
    IN /\ Len(parts) >= 4
       /\ Len(parts[1]) >= 4
       /\ SubSeq(parts[1], 1, 4) = <<"L", "E", "D", "_">>
       /\ parseInt(Id(parts[1])).nan

\* the lines that give a record
ValidLines == {i \in DOMAIN coordFile.lines : ParseLine(coordFile.lines[i]).valid}

C28_LoadFailureAsStated ==
    LoadDone =>
        ((\/ ~coordFile.exists
          \/ ValidLines = {}
          \/ \E i \in DOMAIN coordFile.lines : UnparseableId(coordFile.lines[i]))
         => LoadFailed)

\* C28, amended. Loading the coordinate file fails (fatal at startup, no
\* coordinate store is built) exactly when the file is missing or yields zero
\* valid records. A data line with an unparseable LED id is skipped: with a
\* valid record in the file the load succeeds, and the store holds the ids of
\* the valid records.
C28_LoadFailure ==
    LoadDone =>
        IF ~coordFile.exists \/ ValidLines = {}
        THEN LoadFailed
        ELSE /\ mainPc = "connecting"
             /\ DOMAIN coordinates = {ParseLine(coordFile.lines[i]).record.id : i \in ValidLines}
             /\ Len(rawCoordinates) = Cardinality(ValidLines)

C28_Witness ==
    /\ LoadDone
    /\ mainPc = "connecting"
    /\ Len(coordFile.lines) = 2
    /\ UnparseableId(coordFile.lines[1])
    /\ DOMAIN coordinates = {2}


\* ------------------------------------------------------------------------
\* C29: the status file
\* ------------------------------------------------------------------------

\* the text writeStatusFile() writes for the STATS line received at time t
StatusText(line, t) ==
    LET s == writeStatusFile(Cur, parseStatusMessage(line, t))
    IN s.statusWrites[Len(s.statusWrites)].content

\* c is the complete JSON of one STATS record: the record of the line its raw
\* property holds, received at the time its timestamp property holds
CompleteRecord(c) ==
    /\ Len(c) >= 3
    /\ c[2].number.den = 1
    /\ parseStatusMessage(c[3].text, c[2].number.num) # <<>>
    /\ c = StatusText(c[3].text, c[2].number.num)

\* C29: the status file is rewritten atomically: whenever a reader finds the
\* file, also while a write is in progress or two writes overlap, its content
\* is the complete JSON of exactly one STATS record, never an empty, a partial
\* or an interleaved text.
C29_AtomicStatusFile == statusFile.exists => CompleteRecord(statusFile.content)


\* ------------------------------------------------------------------------
\* C30: serial write errors
\* ------------------------------------------------------------------------

\* C30: a serial write that reports an error through its completion callback
\* while the port stays open is not fatal: the process keeps running and the
\* render loop keeps ticking; only a serial disconnect terminates the process.
C30_WriteErrorNotFatal ==
    /\ [][event'.type = "writeError" =>
              /\ mainPc' = mainPc
              /\ running' = running
              /\ loops' = loops]_vars
    /\ [][(mainPc # "exited" /\ mainPc' = "exited") => event'.type = "disconnect"]_vars


\* the step is a call of parse_uart_data() whose bytes all belong to one
\* Update only command: the command starts with the first byte and no further
\* command byte is read, or the command was pending and no command byte is read
UpdateOnlyBytes ==
    /\ nrx' = nrx + 1
    /\ \/ /\ rx'.from = "STATE_WAIT_COMMAND"
          /\ rx'.bytes[1] = CMD_UPDATE_ONLY
          /\ stats'.commands = stats.commands + 1
       \/ /\ rx'.from # "STATE_WAIT_COMMAND"
          /\ parser.current_command = CMD_UPDATE_ONLY
          /\ stats'.commands = stats.commands

\* C32: Update only has no display effect. The bytes of an Update only
\* command, from the first to the last, swap the buffers of no channel, start
\* no DMA transfer and leave the contents of every channel's output buffer as
\* they were: what the command stores is in the active buffer, and is shown
\* only once a later command swaps the channel.
C32_UpdateOnlyNoDisplay ==
    [][UpdateOnlyBytes =>
          /\ dma' = dma
          /\ stats'.flushes = stats.flushes
          /\ \A k \in Chans :
                /\ channels'[k].active_buffer = channels[k].active_buffer
                /\ channels'[k].output_buffer = channels[k].output_buffer
                /\ channels'[k].dma_in_progress = channels[k].dma_in_progress
                /\ Buffer(channels'[k], channels'[k].output_buffer)
                     = Buffer(channels[k], channels[k].output_buffer)]_vars

\* C32 witness: after Clear All put every channel on display, a complete
\* Update only for channel 1 has stored its pixel in the active buffer; the
\* buffer on display is still dark and the transfer of Clear All the last one
C32_Witness ==
    /\ nrx = 2
    /\ rx.bytes = <<CMD_UPDATE_ONLY, 1, 1, 0, 255, 255, 255>>
    /\ rx.from = "STATE_WAIT_COMMAND"
    /\ parser.state = "STATE_WAIT_COMMAND"
    /\ stats.flushes = NUM_CHANNELS
    /\ channels[1].led_count = 1
    /\ Word(Buffer(channels[1], channels[1].active_buffer), 0) = rgb_to_grb(255, 255, 255)
    /\ Word(Buffer(channels[1], channels[1].output_buffer), 0) = 0
    /\ dma[1].src = channels[1].output_buffer

\* channel k was swapped in the step
SwappedNow(k) == channels'[k].output_buffer # channels[k].output_buffer

\* C35: the current limit holds for everything displayed. For every sequence
\* of Update, Update and flush, Flush, Clear All, Start pattern and Stop
\* pattern commands with varying cnt, every buffer a swap hands to the DMA
\* hardware has a sum of R+G+B over the led_count LEDs of the channel of
\* CURRENT_LIMIT_THRESHOLD or less.
C35_CurrentLimitDisplayed ==
    [][\A k \in Chans :
          SwappedNow(k) =>
              TotalBrightness(Buffer(channels'[k], channels'[k].output_buffer),
                              channels'[k].led_count) <= CURRENT_LIMIT_THRESHOLD]_vars

\* ------------------------------------------------------------------------
\* Claims about the host and the device together
\* ------------------------------------------------------------------------

\* channel c displays nothing: no transfer was ever started, or the buffer
\* handed to the DMA hardware is zero on the led_count LEDs it sends
Dark(c) ==
    \/ dma[c].src = "none"
    \/ \A i \in 0 .. channels[c].led_count - 1 :
          Word(Buffer(channels[c], channels[c].output_buffer), i) = 0

\* C31: dark during takeover. From the Clear All written by pause() until the
\* takeover client's first forwarded byte, or until resume() when the client
\* sends nothing, the displayed output of every channel is all-zero, also when
\* the client is silent for longer than the 5 s test-pattern timeout of the
\* device and shorter than the idle timeout of the host.
C31_DarkDuringTakeover ==
    (paused /\ activeClient # NULL) => \A c \in Chans : Dark(c)


\* C34: stream framing across takeover. When the render loop resumes after a
\* takeover ends, the device parser is in STATE_WAIT_COMMAND as the first byte
\* of the render loop arrives, whatever the client had sent before it closed:
\* the Update commands and the Flush of the first tick are decoded as
\* commands, without an error.
C34_StreamFraming ==
    [][(event'.type = "close" /\ running' /\ nrx' = nrx + 1)
       => /\ rx'.from = "STATE_WAIT_COMMAND"
          /\ stats'.commands = stats.commands + config.numChannels + 1
          /\ stats'.errors = stats.errors
          /\ parser'.state = "STATE_WAIT_COMMAND"]_vars


\* ------------------------------------------------------------------------
\* Further claims about the device
\* ------------------------------------------------------------------------

\* the last command read was completed and ended with a swap of channel 0,
\* and no test pattern draws: channel 0 has received no Update since its swap
SwappedLast ==
    /\ rx.from = "STATE_WAIT_COMMAND"
    /\ parser.state = "STATE_WAIT_COMMAND"
    /\ system_mode = "MODE_NORMAL"
    /\ rx.bytes # <<>>
    /\ \/ rx.bytes[1] = CMD_UPDATE_AND_FLUSH
       \/ rx.bytes = <<CMD_FLUSH, 1>>
       \/ rx.bytes = <<CMD_CLEAR_ALL>>

\* C36: Flush without new data is a no-op on the display. A Flush of channel
\* 0 that comes directly after a command that swapped channel 0 changes
\* nothing of what the channel displays: the LEDs sent are the same in number
\* and in colour; after Clear All the channel stays dark.
C36_FlushWithoutDataNoOp ==
    [][(SwappedLast /\ nrx' = nrx + 1 /\ rx'.bytes = <<CMD_FLUSH, 1>>) =>
          /\ channels'[0].led_count = channels[0].led_count
          /\ \A i \in 0 .. channels[0].led_count - 1 :
                Word(Buffer(channels'[0], channels'[0].output_buffer), i)
                  = Word(Buffer(channels[0], channels[0].output_buffer), i)
          /\ (rx.bytes = <<CMD_CLEAR_ALL>> => Dark(0)')]_vars


\* the indices of parser p are in range
InBounds(p) ==
    /\ p.current_channel \in 0 .. NUM_CHANNELS - 1
    /\ p.state = "STATE_READ_RGB_DATA" =>
          /\ 1 <= p.current_led_count
          /\ p.current_led_count <= MAX_LEDS_PER_CHANNEL
          /\ p.current_led_index \in 0 .. p.current_led_count - 1
          /\ p.rgb_byte_index \in 0 .. 2

\* C37: parser index bounds. Before and after every byte of every read,
\* current_channel is below NUM_CHANNELS, and in STATE_READ_RGB_DATA
\* current_led_count is in 1 .. MAX_LEDS_PER_CHANNEL, current_led_index is
\* below current_led_count and rgb_byte_index is 0, 1 or 2: the pixel store
\* of the next byte lies inside the active buffer of an existing channel.
C37_ParserIndexBounds ==
    [][nrx' = nrx + 1 =>
          \A k \in 0 .. Len(rx'.bytes) :
              InBounds(parse_uart_data(Dev, SubSeq(rx'.bytes, 1, k)).parser)]_vars

\* C37 witness: two reads have left the parser inside the pixel data of an
\* Update only for channel 0 with two LEDs, the blue byte of LED 0 next
C37_Witness ==
    /\ nrx = 2
    /\ parser.state = "STATE_READ_RGB_DATA"
    /\ parser.current_channel = 0
    /\ parser.current_led_count = 2
    /\ parser.current_led_index = 0
    /\ parser.rgb_byte_index = 2
    /\ InBounds(parser)


\* ------------------------------------------------------------------------
\* Further claims about the switcher and the engine
\* ------------------------------------------------------------------------

\* C38: the switcher converges to the latest request. Once every call of
\* handleFileChange() has completed, a control file that names an animation
\* that loads is the switcher's current animation and the engine's installed
\* function and parameters are that animation's, also when a later change
\* event was handled while the load of an earlier one was still awaited.
C38_LatestRequestWins ==
    (tasks = <<>> /\ Trim(controlFile) \in DOMAIN Scripts) =>
        /\ currentAnimation = Trim(controlFile)
        /\ animationFunc = Scripts[Trim(controlFile)].func
        /\ animationParams = Scripts[Trim(controlFile)].params


\* C39: animation time is monotonic. The time t passed to the animation
\* function never decreases from one emitted tick to the next, also across a
\* pause() and resume() in between.
C39_MonotonicTime ==
    [][lastT'.num * lastT.den >= lastT.num * lastT'.den]_vars

=============================================================================
